---- MODULE Spec2Model ----
(***************************************************************************)
(* hpa-exporter: the four evolutions of the exporter's main() that the     *)
(* repository holds, as one state machine.                                 *)
(*                                                                         *)
(*   variant "v1"      src/main.go            seven base families          *)
(*   variant "setonly" src/unnamed/part_002   annotations, conditions set  *)
(*   variant "cache"   src/unnamed/part_003   per-name condition caches    *)
(*   variant "v2"      src/unnamed/part_004   autoscaling/v2beta1, Reset   *)
(*                                                                         *)
(* A gauge value is a float64; it is kept here in thousandths, so that     *)
(* float64(i) is i * 1000 and a division by 1000 is exact.                 *)
(***************************************************************************)
EXTENDS Integers, Sequences, FiniteSets, TLC

VARIABLES
    variant,        \* which main() is running
    mainPc,         \* main: "start" | "serve" (http.ListenAndServe) | "panic"
    reg,            \* the Prometheus registry: family -> (label set -> value)
    annoLabel,      \* part_003: condition type -> name -> forward labels
    annoLabelRev,   \* part_003: condition type -> name -> reverse labels
    pc,             \* metrics goroutine: "off" | "fetch" | "loop" | "sleep" | "panic" | "hung"
    hpa,            \* metrics goroutine: the list returned by the last fetch
    err,            \* metrics goroutine: whether the last fetch failed
    lastHpa,        \* the list of the last successful metrics fetch
    prevHpa,        \* part_002, part_004: the list of the successful fetch before that one
    ticks,          \* metrics fetches issued so far (capped)
    fetchRun,       \* metrics fetches issued since the last time.Sleep (capped)
    loggingTo,      \* the loggingTo flag: "stdout" | "cwlogs"
    logPc,          \* logging goroutine: "off" | "start" | "fetch" | "sleep" | "hung"
    logRun,         \* logging fetches issued since the last time.Sleep (capped)
    logTicks,       \* logging fetches issued so far (capped)
    logged,         \* the records of the last logging tick
    cond,           \* the condition handed to makeAnnotationCondLabels
    labelForward,   \* its first result
    labelReverse,   \* its second result
    side,           \* which parse function is applied: "target" | "current"
    metricSource,   \* the metric handed to it
    parsed,         \* parseCommonMetrics of its result: <<value, labels>>
    inTick,         \* the states [reg, fwd, rev, panic] the running tick has yet to reach
    tickStart,      \* the registry when the running tick began
    scraped,        \* what the last GET /metrics gathered
    lastBase        \* history: condition type -> name -> the base labels under which
                    \* part_003 last wrote that cache entry

metricsVars ==
    <<reg, annoLabel, annoLabelRev, pc, hpa, err, lastHpa, prevHpa, ticks, fetchRun>>
loggingVars == <<loggingTo, logPc, logRun, logTicks, logged>>
condVars == <<cond, labelForward, labelReverse>>
parseVars == <<side, metricSource, parsed>>
pureVars == <<condVars, parseVars>>
scrapeVars == <<inTick, tickStart, scraped>>
historyVars == <<lastBase>>
vars == <<variant, mainPc, metricsVars, loggingVars, pureVars, scrapeVars, historyVars>>

----------------------------------------------------------------------------
(* Bounds of the model *)

MaxTicks == 3
MaxLogTicks == 2
MaxHpas == 2

----------------------------------------------------------------------------
(* Go values *)

\* a nil pointer, and a pointer to v
Nil == <<>>
Ptr(v) == <<v>>
Deref(p) == p[1]

\* float64(i) of an integer i, in thousandths
Float64(i) == i * 1000

\* f / 1000 of a float64 f
Div1000(f) == f \div 1000

\* meta_v1.Time: the embedded time.Time's Unix()
Unix(t) == t.sec

----------------------------------------------------------------------------
(* Label sets *)

baseLabels == {"hpa_name", "hpa_namespace", "ref_kind", "ref_name", "ref_apiversion"}
annoLabels == {"cond_status", "cond_reason", "cond_message"}
metricLabels == {"metric_kind", "metric_name", "metric_metricname"}

conditionStatusTrue == "True"
conditionStatusFalse == "False"

BaseFamilies == {"hpaCurrentPodsNum", "hpaDesiredPodsNum", "hpaMinPodsNum",
                 "hpaMaxPodsNum", "hpaCurrentCpuValue", "hpaCurrentCpuPercentage",
                 "hpaTargetCpuPercentage", "hpaLastScaleSecond"}
MetricFamilies == {"hpaCurrentMetricsValue", "hpaTargetMetricsValue"}
CondFamilies == {"hpaAbleToScale", "hpaScalingActive", "hpaScalingLimited"}
Families == BaseFamilies \cup MetricFamilies \cup CondFamilies

\* the variable label names a GaugeVec was created with
FamilyLabels(f) ==
    IF f \in CondFamilies THEN baseLabels \cup annoLabels
    ELSE IF f \in MetricFamilies THEN baseLabels \cup metricLabels
    ELSE baseLabels

\* a Go map that was never assigned
NoLabels == [k \in {} |-> ""]

mergeLabels(m1, m2) == m2 @@ m1

\* prometheus.Labels{...} built from an autoscaler's ObjectMeta and ScaleTargetRef
baseLabel(a) ==
    [hpa_name |-> a.Name, hpa_namespace |-> a.Namespace,
     ref_kind |-> a.ScaleTargetRef.Kind, ref_name |-> a.ScaleTargetRef.Name,
     ref_apiversion |-> a.ScaleTargetRef.APIVersion]

----------------------------------------------------------------------------
(* The registry: GaugeVec.With(l).Set(v), GaugeVec.Delete(l), GaugeVec.Reset() *)

EmptyRegistry == [f \in Families |-> NoLabels]

Set(r, f, l, v) == [r EXCEPT ![f] = (l :> v) @@ @]

\* Delete returns false and removes nothing when the label names are not the family's
Delete(r, f, l) ==
    IF DOMAIN l = FamilyLabels(f)
    THEN [r EXCEPT ![f] = [x \in (DOMAIN @) \ {l} |-> @[x]]]
    ELSE r

Reset(r, f) == [r EXCEPT ![f] = NoLabels]

----------------------------------------------------------------------------
(* Conditions *)

\* as makeAnnotationCondLabels, but only the status False is reversed to True
makeAnnotationCondLabelsStrict(c) ==
    [i \in 1..2 |->
        IF i = 1
        THEN [cond_status |-> c.Status, cond_reason |-> c.Reason,
              cond_message |-> c.Message]
        ELSE [cond_status |-> IF c.Status = conditionStatusFalse
                              THEN conditionStatusTrue
                              ELSE conditionStatusFalse,
              cond_reason |-> "", cond_message |-> ""]]

\* as makeAnnotationCondLabels, but the reversed status is True whatever the status
makeAnnotationCondLabelsTrue(c) ==
    <<[cond_status |-> c.Status, cond_reason |-> c.Reason, cond_message |-> c.Message],
      [cond_status |-> conditionStatusTrue, cond_reason |-> "", cond_message |-> ""]>>

makeAnnotationCondLabels(c) ==
    LET forward == [cond_status |-> c.Status, cond_reason |-> c.Reason,
                    cond_message |-> c.Message]
        statusReverse == IF c.Status = conditionStatusTrue
                         THEN conditionStatusFalse
                         ELSE conditionStatusTrue
        reverse == [cond_status |-> statusReverse, cond_reason |-> "",
                    cond_message |-> ""]
    IN  <<forward, reverse>>

\* the GaugeVec a condition type is published in ("" when the switch has no case)
CondFamily(type) ==
    CASE type = "AbleToScale" -> "hpaAbleToScale"
      [] type = "ScalingActive" -> "hpaScalingActive"
      [] type = "ScalingLimited" -> "hpaScalingLimited"
      [] OTHER -> ""

CondTypes == {"AbleToScale", "ScalingActive", "ScalingLimited"}

\* m[k] of a Go map: the zero value (a nil map) when k is absent
Lookup(m, k) == IF k \in DOMAIN m THEN m[k] ELSE NoLabels

----------------------------------------------------------------------------
(* Annotations (part_002, part_003) *)

\* json.Unmarshal of an annotation: the text is kept as whether it parses and
\* what it parses to; an absent annotation is the empty string, which does not parse
jsonUnmarshal(text) ==
    IF text.valid THEN [err |-> FALSE, val |-> text.value]
    ELSE [err |-> TRUE, val |-> <<>>]

Digits == <<"0", "1", "2", "3", "4", "5", "6", "7", "8", "9">>
IsDigit(ch) == \E d \in 1..10 : Digits[d] = ch
DigitVal(ch) == (CHOOSE d \in 1..10 : Digits[d] = ch) - 1

\* strings.Trim(s, "m") on a string kept as a sequence of characters
RECURSIVE TrimLeft(_)
TrimLeft(s) == IF s # <<>> /\ Head(s) = "m" THEN TrimLeft(Tail(s)) ELSE s
RECURSIVE TrimRight(_)
TrimRight(s) ==
    IF s # <<>> /\ s[Len(s)] = "m" THEN TrimRight(SubSeq(s, 1, Len(s) - 1)) ELSE s
Trim(s) == TrimRight(TrimLeft(s))

RECURSIVE DigitsValue(_, _)
DigitsValue(s, acc) ==
    IF s = <<>> THEN acc ELSE DigitsValue(Tail(s), acc * 10 + DigitVal(Head(s)))

\* strconv.ParseInt(s, 10, 64): an optional sign, then one or more digits
ParseInt(s) ==
    LET signed == s # <<>> /\ Head(s) \in {"+", "-"}
        body == IF signed THEN Tail(s) ELSE s
        ok == body # <<>> /\ \A i \in 1..Len(body) : IsDigit(body[i])
        n == IF ok THEN DigitsValue(body, 0) ELSE 0
    IN  [err |-> ~ok, val |-> IF signed /\ Head(s) = "-" THEN 0 - n ELSE n]

currentAverageCpuValue(metrics) ==
    LET r == ParseInt(Trim(metrics.Resource.CurrentAverageValue))
    IN  IF r.err THEN 0 ELSE r.val

----------------------------------------------------------------------------
(* part_003: the body of the metrics goroutine's loop over the fetched list *)

\* the base labels under which the loop over list writes the cache entries:
\* those of the last autoscaler of each name that has a condition of the type
RECURSIVE WrittenBase(_, _, _)
WrittenBase(lb, list, i) ==
    IF i > Len(list) THEN lb
    ELSE LET a == list[i]
             conditions == jsonUnmarshal(a.Annotations.conditions)
             skipped == jsonUnmarshal(a.Annotations.metrics).err \/ conditions.err
             types == {conditions.val[j].Type : j \in DOMAIN conditions.val}
             next == [t \in CondTypes |->
                         IF ~skipped /\ t \in types
                         THEN (a.Name :> baseLabel(a)) @@ lb[t]
                         ELSE lb[t]]
         IN  WrittenBase(next, list, i + 1)

\* as CacheRelabel, but the two Set calls come before the two Delete calls
CacheRelabelSetFirst(st, label, name, c) ==
    LET type == c.Type
        f == CondFamily(type)
        new == makeAnnotationCondLabels(c)
        r1 == Set(st.reg, f, mergeLabels(label, new[1]), Float64(1))
        r2 == Set(r1, f, mergeLabels(label, new[2]), Float64(0))
        r3 == Delete(r2, f, mergeLabels(label, Lookup(st.fwd[type], name)))
        r4 == Delete(r3, f, mergeLabels(label, Lookup(st.rev[type], name)))
    IN  IF type \in CondTypes
        THEN [reg |-> r4,
              fwd |-> [st.fwd EXCEPT ![type] = (name :> new[1]) @@ @],
              rev |-> [st.rev EXCEPT ![type] = (name :> new[2]) @@ @]]
        ELSE st

\* one case of the switch on cond.Type: st is [reg, fwd, rev]
CacheRelabel(st, label, name, c) ==
    LET type == c.Type
        f == CondFamily(type)
        oldLabel == Lookup(st.fwd[type], name)
        oldLabelRev == Lookup(st.rev[type], name)
        new == makeAnnotationCondLabels(c)
        r1 == Delete(st.reg, f, mergeLabels(label, oldLabel))
        r2 == Delete(r1, f, mergeLabels(label, oldLabelRev))
        r3 == Set(r2, f, mergeLabels(label, new[1]), Float64(1))
        r4 == Set(r3, f, mergeLabels(label, new[2]), Float64(0))
    IN  IF type \in CondTypes
        THEN [reg |-> r4,
              fwd |-> [st.fwd EXCEPT ![type] = (name :> new[1]) @@ @],
              rev |-> [st.rev EXCEPT ![type] = (name :> new[2]) @@ @]]
        ELSE st

RECURSIVE CacheConditions(_, _, _, _, _)
CacheConditions(st, label, name, conditions, i) ==
    IF i > Len(conditions) THEN st
    ELSE CacheConditions(CacheRelabel(st, label, name, conditions[i]),
                         label, name, conditions, i + 1)

\* as AnnotationBase, but an absent min replicas is published as zero
AnnotationBaseZero(r, a, label, cpuVal) ==
    LET r1 == Set(r, "hpaCurrentPodsNum", label, Float64(a.CurrentReplicas))
        r2 == Set(r1, "hpaDesiredPodsNum", label, Float64(a.DesiredReplicas))
        r3 == Set(r2, "hpaMinPodsNum", label,
                  Float64(IF a.MinReplicas # Nil THEN Deref(a.MinReplicas) ELSE 0))
        r4 == Set(r3, "hpaMaxPodsNum", label, Float64(a.MaxReplicas))
        r5 == Set(r4, "hpaCurrentCpuValue", label, Float64(cpuVal))
        r6 == IF a.CurrentCPUUtilizationPercentage # Nil
              THEN Set(r5, "hpaCurrentCpuPercentage", label,
                       Float64(Deref(a.CurrentCPUUtilizationPercentage)))
              ELSE r5
        r7 == IF a.TargetCPUUtilizationPercentage # Nil
              THEN Set(r6, "hpaTargetCpuPercentage", label,
                       Float64(Deref(a.TargetCPUUtilizationPercentage)))
              ELSE r6
    IN  IF a.LastScaleTime # Nil
        THEN Set(r7, "hpaLastScaleSecond", label, Float64(Unix(Deref(a.LastScaleTime))))
        ELSE r7

\* the seven or eight base series of the annotation variants
AnnotationBase(r, a, label, cpuVal) ==
    LET r1 == Set(r, "hpaCurrentPodsNum", label, Float64(a.CurrentReplicas))
        r2 == Set(r1, "hpaDesiredPodsNum", label, Float64(a.DesiredReplicas))
        r3 == IF a.MinReplicas # Nil
              THEN Set(r2, "hpaMinPodsNum", label, Float64(Deref(a.MinReplicas)))
              ELSE r2
        r4 == Set(r3, "hpaMaxPodsNum", label, Float64(a.MaxReplicas))
        r5 == Set(r4, "hpaCurrentCpuValue", label, Float64(cpuVal))
        r6 == IF a.CurrentCPUUtilizationPercentage # Nil
              THEN Set(r5, "hpaCurrentCpuPercentage", label,
                       Float64(Deref(a.CurrentCPUUtilizationPercentage)))
              ELSE r5
        r7 == IF a.TargetCPUUtilizationPercentage # Nil
              THEN Set(r6, "hpaTargetCpuPercentage", label,
                       Float64(Deref(a.TargetCPUUtilizationPercentage)))
              ELSE r6
        r8 == IF a.LastScaleTime # Nil
              THEN Set(r7, "hpaLastScaleSecond", label,
                       Float64(Unix(Deref(a.LastScaleTime))))
              ELSE r7
    IN  r8

CacheBody(st, a) ==
    LET label == baseLabel(a)
        metrics == jsonUnmarshal(a.Annotations.metrics)
        conditions == jsonUnmarshal(a.Annotations.conditions)
        cpuVal == IF Len(metrics.val) # 0
                  THEN currentAverageCpuValue(metrics.val[1])
                  ELSE 0
        based == [st EXCEPT !.reg = AnnotationBase(st.reg, a, label, cpuVal)]
    IN  IF metrics.err \/ conditions.err THEN st
        ELSE CacheConditions(based, label, a.Name, conditions.val, 1)

RECURSIVE CacheLoop(_, _, _)
CacheLoop(st, list, i) ==
    IF i > Len(list) THEN st
    ELSE CacheLoop(CacheBody(st, list[i]), list, i + 1)

----------------------------------------------------------------------------
(* part_002: conditions are only ever set *)

\* as SetOnlyCondition, but the family is reset before the two series are set
SetOnlyConditionFresh(r, label, c) ==
    LET f == CondFamily(c.Type)
        active == [cond_status |-> c.Status, cond_reason |-> c.Reason,
                   cond_message |-> c.Message]
        inactive == [cond_status |-> IF c.Status = "True" THEN "False" ELSE "True",
                     cond_reason |-> "", cond_message |-> ""]
    IN  IF c.Type \in CondTypes
        THEN Set(Set(Reset(r, f), f, mergeLabels(label, active), Float64(1)),
                 f, mergeLabels(label, inactive), Float64(0))
        ELSE r

SetOnlyCondition(r, label, c) ==
    LET annoLabelNew == [cond_status |-> c.Status, cond_reason |-> c.Reason,
                         cond_message |-> c.Message]
        statusReverse == IF c.Status = "True" THEN "False" ELSE "True"
        annoLabelNewRev == [cond_status |-> statusReverse, cond_reason |-> "",
                            cond_message |-> ""]
        f == CondFamily(c.Type)
        r1 == Set(r, f, mergeLabels(label, annoLabelNew), Float64(1))
        r2 == Set(r1, f, mergeLabels(label, annoLabelNewRev), Float64(0))
    IN  IF c.Type \in CondTypes THEN r2 ELSE r

RECURSIVE SetOnlyConditions(_, _, _, _)
SetOnlyConditions(r, label, conditions, i) ==
    IF i > Len(conditions) THEN r
    ELSE SetOnlyConditions(SetOnlyCondition(r, label, conditions[i]),
                           label, conditions, i + 1)

SetOnlyBody(r, a) ==
    LET label == baseLabel(a)
        metrics == jsonUnmarshal(a.Annotations.metrics)
        conditions == jsonUnmarshal(a.Annotations.conditions)
        cpuVal == IF Len(metrics.val) # 0
                  THEN currentAverageCpuValue(metrics.val[1])
                  ELSE 0
    IN  IF metrics.err \/ conditions.err THEN r
        ELSE SetOnlyConditions(AnnotationBase(r, a, label, cpuVal),
                               label, conditions.val, 1)

RECURSIVE SetOnlyLoop(_, _, _)
SetOnlyLoop(r, list, i) ==
    IF i > Len(list) THEN r
    ELSE SetOnlyLoop(SetOnlyBody(r, list[i]), list, i + 1)

----------------------------------------------------------------------------
(* main.go: st is [reg, panic] *)

\* a.Status.LastScaleTime.Unix() reaches the embedded time.Time through the
\* pointer: a nil LastScaleTime is a nil dereference, which ends the process
V1Body(st, a) ==
    LET label == baseLabel(a)
        r1 == Set(st.reg, "hpaCurrentPodsNum", label, Float64(a.CurrentReplicas))
        r2 == Set(r1, "hpaDesiredPodsNum", label, Float64(a.DesiredReplicas))
        r3 == Set(r2, "hpaMinPodsNum", label, Float64(Deref(a.MinReplicas)))
        r4 == Set(r3, "hpaMaxPodsNum", label, Float64(a.MaxReplicas))
        r5 == Set(r4, "hpaCurrentCpuPercentage", label,
                  Float64(Deref(a.CurrentCPUUtilizationPercentage)))
        r6 == Set(r5, "hpaTargetCpuPercentage", label,
                  Float64(Deref(a.TargetCPUUtilizationPercentage)))
        r7 == Set(r6, "hpaLastScaleSecond", label,
                  Float64(Unix(Deref(a.LastScaleTime))))
    IN  IF a.MinReplicas = Nil \/ a.CurrentCPUUtilizationPercentage = Nil
           \/ a.TargetCPUUtilizationPercentage = Nil
        THEN st
        ELSE IF a.LastScaleTime = Nil
        THEN [reg |-> r6, panic |-> TRUE]
        ELSE [reg |-> r7, panic |-> FALSE]

RECURSIVE V1Loop(_, _, _)
V1Loop(st, list, i) ==
    IF i > Len(list) \/ st.panic THEN st
    ELSE V1Loop(V1Body(st, list[i]), list, i + 1)

----------------------------------------------------------------------------
(* part_004: autoscaling/v2beta1; st is [reg, panic] *)

\* resource.Quantity.MilliValue()
MilliValue(q) == q.milli

\* fmt.Sprintf("%v", s) of a string-typed value
Sprintf(s) == s

makeAnnotationCondLabelsV2(c) ==
    LET forward == [cond_status |-> Sprintf(c.Status), cond_reason |-> c.Reason,
                    cond_message |-> c.Message]
        statusReverse == IF c.Status = "True"
                         THEN Sprintf("False")
                         ELSE Sprintf("True")
        reverse == [cond_status |-> statusReverse, cond_reason |-> "",
                    cond_message |-> ""]
    IN  <<forward, reverse>>

parseObjectSpec(m) ==
    [Kind |-> m.Target.Kind, Name |-> m.Target.Name, MetricName |-> m.MetricName,
     Value |-> Div1000(Float64(MilliValue(m.TargetValue)))]

parsePodsSpec(m) ==
    [Kind |-> "Pod", Name |-> "-", MetricName |-> m.MetricName,
     Value |-> Div1000(Float64(MilliValue(m.TargetAverageValue)))]

parseResourceSpec(m) ==
    [Kind |-> "Resource", Name |-> m.Name, MetricName |-> "-",
     Value |-> IF m.TargetAverageUtilization = Nil
               THEN Div1000(Float64(MilliValue(Deref(m.TargetAverageValue))))
               ELSE Float64(Deref(m.TargetAverageUtilization))]

parseExternalSpec(m) ==
    [Kind |-> "External", Name |-> "-", MetricName |-> m.MetricName,
     Value |-> IF m.TargetAverageValue = Nil
               THEN Div1000(Float64(MilliValue(Deref(m.TargetValue))))
               ELSE Div1000(Float64(MilliValue(Deref(m.TargetAverageValue))))]

parseObjectStatus(m) ==
    [Kind |-> m.Target.Kind, Name |-> m.Target.Name, MetricName |-> m.MetricName,
     Value |-> Div1000(Float64(MilliValue(m.CurrentValue)))]

parsePodsStatus(m) ==
    [Kind |-> "Pod", Name |-> "-", MetricName |-> m.MetricName,
     Value |-> Div1000(Float64(MilliValue(m.CurrentAverageValue)))]

\* as parseResourceStatus, but the utilization is never read
parseResourceStatusAverage(m) ==
    [Kind |-> "Resource", Name |-> m.Name, MetricName |-> "-",
     Value |-> Div1000(Float64(MilliValue(m.CurrentAverageValue)))]

parseResourceStatus(m) ==
    [Kind |-> "Resource", Name |-> m.Name, MetricName |-> "-",
     Value |-> IF m.CurrentAverageUtilization = Nil
               THEN Div1000(Float64(MilliValue(m.CurrentAverageValue)))
               ELSE Float64(Deref(m.CurrentAverageUtilization))]

\* as parseExternalStatus, but the average value is never read
parseExternalStatusPlain(m) ==
    [Kind |-> "External", Name |-> "-", MetricName |-> m.MetricName,
     Value |-> Div1000(Float64(MilliValue(m.CurrentValue)))]

parseExternalStatus(m) ==
    [Kind |-> "External", Name |-> "-", MetricName |-> m.MetricName,
     Value |-> IF m.CurrentAverageValue = Nil
               THEN Div1000(Float64(MilliValue(m.CurrentValue)))
               ELSE Div1000(Float64(MilliValue(Deref(m.CurrentAverageValue))))]

parseCommonMetrics(m) ==
    <<m.Value, [metric_kind |-> m.Kind, metric_name |-> m.Name,
                metric_metricname |-> m.MetricName]>>

MetricTypes == {"Object", "Pods", "Resource", "External"}

\* a target metric whose quantity pointers are both nil: MilliValue() on a nil
\* *resource.Quantity is a nil dereference
SpecPanics(metric) ==
    \/ metric.Type = "Resource" /\ metric.Resource.TargetAverageUtilization = Nil
       /\ metric.Resource.TargetAverageValue = Nil
    \/ metric.Type = "External" /\ metric.External.TargetAverageValue = Nil
       /\ metric.External.TargetValue = Nil

V2Target(st, baseLbl, metric) ==
    LET m == CASE metric.Type = "Object" -> parseObjectSpec(metric.Object)
               [] metric.Type = "Pods" -> parsePodsSpec(metric.Pods)
               [] metric.Type = "Resource" -> parseResourceSpec(metric.Resource)
               [] metric.Type = "External" -> parseExternalSpec(metric.External)
        vl == parseCommonMetrics(m)
    IN  IF metric.Type \notin MetricTypes THEN st
        ELSE IF SpecPanics(metric) THEN [st EXCEPT !.panic = TRUE]
        ELSE [st EXCEPT !.reg = Set(@, "hpaTargetMetricsValue",
                                    mergeLabels(baseLbl, vl[2]), vl[1])]

RECURSIVE V2Targets(_, _, _, _)
V2Targets(st, baseLbl, metrics, i) ==
    IF i > Len(metrics) \/ st.panic THEN st
    ELSE V2Targets(V2Target(st, baseLbl, metrics[i]), baseLbl, metrics, i + 1)

\* as V2Current, but a metric of an unknown kind fails the tick
V2CurrentUnknownFails(st, baseLbl, metric) ==
    LET m == CASE metric.Type = "Object" -> parseObjectStatus(metric.Object)
               [] metric.Type = "Pods" -> parsePodsStatus(metric.Pods)
               [] metric.Type = "Resource" -> parseResourceStatus(metric.Resource)
               [] metric.Type = "External" -> parseExternalStatus(metric.External)
        vl == parseCommonMetrics(m)
    IN  IF metric.Type \notin MetricTypes THEN [st EXCEPT !.panic = TRUE]
        ELSE [st EXCEPT !.reg = Set(@, "hpaCurrentMetricsValue",
                                    mergeLabels(baseLbl, vl[2]), vl[1])]

V2Current(st, baseLbl, metric) ==
    LET m == CASE metric.Type = "Object" -> parseObjectStatus(metric.Object)
               [] metric.Type = "Pods" -> parsePodsStatus(metric.Pods)
               [] metric.Type = "Resource" -> parseResourceStatus(metric.Resource)
               [] metric.Type = "External" -> parseExternalStatus(metric.External)
        vl == parseCommonMetrics(m)
    IN  IF metric.Type \notin MetricTypes THEN st
        ELSE [st EXCEPT !.reg = Set(@, "hpaCurrentMetricsValue",
                                    mergeLabels(baseLbl, vl[2]), vl[1])]

RECURSIVE V2Currents(_, _, _, _)
V2Currents(st, baseLbl, metrics, i) ==
    IF i > Len(metrics) \/ st.panic THEN st
    ELSE V2Currents(V2Current(st, baseLbl, metrics[i]), baseLbl, metrics, i + 1)

V2Condition(st, baseLbl, c) ==
    LET pair == makeAnnotationCondLabelsV2(c)
        f == CondFamily(c.Type)
        r1 == Set(st.reg, f, mergeLabels(baseLbl, pair[1]), Float64(1))
        r2 == Set(r1, f, mergeLabels(baseLbl, pair[2]), Float64(0))
    IN  IF c.Type \in CondTypes THEN [st EXCEPT !.reg = r2] ELSE st

RECURSIVE V2Conditions(_, _, _, _)
V2Conditions(st, baseLbl, conditions, i) ==
    IF i > Len(conditions) \/ st.panic THEN st
    ELSE V2Conditions(V2Condition(st, baseLbl, conditions[i]),
                      baseLbl, conditions, i + 1)

V2Base(r, a, baseLbl) ==
    LET r1 == Set(r, "hpaCurrentPodsNum", baseLbl, Float64(a.CurrentReplicas))
        r2 == Set(r1, "hpaDesiredPodsNum", baseLbl, Float64(a.DesiredReplicas))
        r3 == IF a.MinReplicas # Nil
              THEN Set(r2, "hpaMinPodsNum", baseLbl, Float64(Deref(a.MinReplicas)))
              ELSE r2
        r4 == Set(r3, "hpaMaxPodsNum", baseLbl, Float64(a.MaxReplicas))
        r5 == IF a.LastScaleTime # Nil
              THEN Set(r4, "hpaLastScaleSecond", baseLbl,
                       Float64(Unix(Deref(a.LastScaleTime))))
              ELSE r4
    IN  r5

V2Body(st, a) ==
    LET baseLbl == baseLabel(a)
        s1 == [st EXCEPT !.reg = V2Base(@, a, baseLbl)]
        s2 == V2Targets(s1, baseLbl, a.Metrics, 1)
        s3 == V2Currents(s2, baseLbl, a.CurrentMetrics, 1)
    IN  V2Conditions(s3, baseLbl, a.Conditions, 1)

RECURSIVE V2Loop(_, _, _)
V2Loop(st, list, i) ==
    IF i > Len(list) \/ st.panic THEN st
    ELSE V2Loop(V2Body(st, list[i]), list, i + 1)

collectors == {"hpaCurrentPodsNum", "hpaDesiredPodsNum", "hpaMinPodsNum",
               "hpaMaxPodsNum", "hpaLastScaleSecond", "hpaCurrentMetricsValue",
               "hpaTargetMetricsValue", "hpaAbleToScale", "hpaScalingActive",
               "hpaScalingLimited"}

\* as resetAllMetric, but the condition gauges are not among the collectors
resetBaseAndMetrics(r) ==
    [f \in Families |-> IF f \in collectors \ CondFamilies THEN Reset(r, f)[f] ELSE r[f]]

resetAllMetric(r) == [f \in Families |-> IF f \in collectors THEN Reset(r, f)[f] ELSE r[f]]

----------------------------------------------------------------------------
(* The fetched lists the model draws from *)

ScaleTargetRef(name) == [Kind |-> "Deployment", Name |-> name, APIVersion |-> "apps/v1"]

Condition(type, status, reason, message) ==
    [Type |-> type, Status |-> status, Reason |-> reason, Message |-> message]

\* an annotation that parses to value, and one that does not
Json(value) == [valid |-> TRUE, value |-> value]
BadJson == [valid |-> FALSE, value |-> <<>>]

CurrentMetric(value) ==
    [Type |-> "Resource",
     Resource |-> [Name |-> "cpu", CurrentAverageUtilization |-> 72,
                   CurrentAverageValue |-> value]]

\* a v1 HorizontalPodAutoscaler with its two alpha annotations
HpaV1(name, ns, ref, opt, metrics, conditions) ==
    [Name |-> name, Namespace |-> ns, ScaleTargetRef |-> ScaleTargetRef(ref),
     CurrentReplicas |-> opt.cur, DesiredReplicas |-> 5,
     MinReplicas |-> opt.min, MaxReplicas |-> 10,
     CurrentCPUUtilizationPercentage |-> opt.cpu,
     TargetCPUUtilizationPercentage |-> opt.target,
     LastScaleTime |-> opt.last,
     Annotations |-> [metrics |-> metrics, conditions |-> conditions]]

AllSet == [cur |-> 3, min |-> Ptr(2), cpu |-> Ptr(72), target |-> Ptr(80),
           last |-> Ptr([sec |-> 1700, nsec |-> 5])]

\* lists of at most MaxHpas autoscalers, no two with the same namespace and name
Lists(H) ==
    {l \in UNION {[1..n -> H] : n \in 0..MaxHpas} :
        \A i, j \in DOMAIN l : i # j =>
            <<l[i].Namespace, l[i].Name>> # <<l[j].Namespace, l[j].Name>>}

CacheConditionLists ==
    {<<Condition("AbleToScale", "True", "R1", "")>>,
     <<Condition("AbleToScale", "True", "R2", "m")>>,
     <<Condition("ScalingActive", "True", "R1", ""),
       Condition("AbleToScale", "False", "R2", "")>>}

CacheHpas ==
    {HpaV1("web", nr[1], nr[2], AllSet, Json(<<CurrentMetric(<<"2", "5", "0", "m">>)>>),
           Json(cs)) :
        nr \in {<<"ns1", "d1">>, <<"ns1", "d2">>, <<"ns2", "d1">>},
        cs \in CacheConditionLists}

\* optional fields left out, and a changed replica count
NoMin == [AllSet EXCEPT !.min = Nil]
NoCpu == [AllSet EXCEPT !.cpu = Nil]
NoTarget == [AllSet EXCEPT !.target = Nil]
NoLast == [AllSet EXCEPT !.last = Nil]
Scaled == [AllSet EXCEPT !.cur = 4, !.last = Ptr([sec |-> 1800, nsec |-> 0])]

\* main.go reads no annotation
V1Hpas ==
    {HpaV1("web", "ns1", "d1", opt, BadJson, BadJson) :
        opt \in {AllSet, NoMin, NoCpu, NoTarget, NoLast, Scaled}}
    \cup {HpaV1("web", "ns2", "d1", opt, BadJson, BadJson) : opt \in {AllSet, NoLast}}

AnnoTexts ==
    {[metrics |-> Json(<<CurrentMetric(<<"2", "5", "0", "m">>)>>),
      conditions |-> Json(<<Condition("AbleToScale", "True", "R1", "")>>)],
     [metrics |-> Json(<<>>),
      conditions |-> Json(<<Condition("AbleToScale", "False", "R2", "m"),
                            Condition("Other", "True", "R1", "")>>)]}

AnnoHpas ==
    {HpaV1("web", "ns1", "d1", opt, t.metrics, t.conditions) :
        opt \in {AllSet, NoMin, NoCpu, NoLast}, t \in AnnoTexts}
    \cup {HpaV1("web", "ns2", "d1", NoTarget,
                Json(<<CurrentMetric(<<"a", "b", "c">>)>>),
                Json(<<Condition("ScalingLimited", "Unknown", "R1", "")>>)),
          HpaV1("web", "ns2", "d1", AllSet, BadJson, Json(<<>>)),
          HpaV1("web", "ns2", "d1", AllSet, Json(<<>>), BadJson)}

\* a v2beta1 HorizontalPodAutoscaler
HpaV2(name, ns, opt, metrics, current, conditions) ==
    [Name |-> name, Namespace |-> ns, ScaleTargetRef |-> ScaleTargetRef("d1"),
     CurrentReplicas |-> opt.cur, DesiredReplicas |-> 5,
     MinReplicas |-> opt.min, MaxReplicas |-> 10,
     LastScaleTime |-> opt.last,
     Metrics |-> metrics, CurrentMetrics |-> current, Conditions |-> conditions]

Quantity(milli) == [milli |-> milli]

ObjectRef == [Kind |-> "Service", Name |-> "front", APIVersion |-> "v1"]

ResourceTarget(util, avg) ==
    [Type |-> "Resource",
     Resource |-> [Name |-> "cpu", TargetAverageUtilization |-> util,
                   TargetAverageValue |-> avg]]
ObjectTarget(milli) ==
    [Type |-> "Object",
     Object |-> [Target |-> ObjectRef, MetricName |-> "hits",
                 TargetValue |-> Quantity(milli)]]
PodsTarget(milli) ==
    [Type |-> "Pods",
     Pods |-> [MetricName |-> "qps", TargetAverageValue |-> Quantity(milli)]]
ExternalTarget(value, avg) ==
    [Type |-> "External",
     External |-> [MetricName |-> "queue", TargetValue |-> value,
                   TargetAverageValue |-> avg]]
ResourceCurrent(util, milli) ==
    [Type |-> "Resource",
     Resource |-> [Name |-> "cpu", CurrentAverageUtilization |-> util,
                   CurrentAverageValue |-> Quantity(milli)]]
ObjectCurrent(milli) ==
    [Type |-> "Object",
     Object |-> [Target |-> ObjectRef, MetricName |-> "hits",
                 CurrentValue |-> Quantity(milli)]]
PodsCurrent(milli) ==
    [Type |-> "Pods",
     Pods |-> [MetricName |-> "qps", CurrentAverageValue |-> Quantity(milli)]]
ExternalCurrent(milli, avg) ==
    [Type |-> "External",
     External |-> [MetricName |-> "queue", CurrentValue |-> Quantity(milli),
                   CurrentAverageValue |-> avg]]
UnknownMetric == [Type |-> "ContainerResource"]

\* the autoscaler of the end-to-end example
Web == HpaV2("web", "ns1", NoLast, <<>>, <<ResourceCurrent(Ptr(72), 0)>>,
             <<Condition("AbleToScale", "True", "ReadyForNewScale", "")>>)

V2Shapes ==
    {[opt |-> NoLast, metrics |-> <<>>, current |-> <<ResourceCurrent(Ptr(72), 0)>>,
      conditions |-> <<Condition("AbleToScale", "True", "ReadyForNewScale", "")>>],
     [opt |-> NoMin,
      metrics |-> <<ResourceTarget(Ptr(80), Nil), ObjectTarget(2500)>>,
      current |-> <<ObjectCurrent(1500), UnknownMetric>>,
      conditions |-> <<Condition("AbleToScale", "False", "R1", "m"),
                       Condition("ScalingLimited", "Unknown", "R2", "")>>],
     [opt |-> Scaled,
      metrics |-> <<PodsTarget(3000), UnknownMetric, ExternalTarget(Ptr(Quantity(4000)), Nil)>>,
      current |-> <<ResourceCurrent(Nil, 250), ExternalCurrent(7000, Ptr(Quantity(1500))),
                    PodsCurrent(2000)>>,
      conditions |-> <<>>],
     [opt |-> AllSet,
      metrics |-> <<ResourceTarget(Nil, Ptr(Quantity(500))),
                    ExternalTarget(Ptr(Quantity(4000)), Ptr(Quantity(1000)))>>,
      current |-> <<ExternalCurrent(7000, Nil)>>,
      conditions |-> <<Condition("AbleToScale", "True", "R2", ""),
                       Condition("ScalingActive", "True", "R1", "")>>]}

V2Hpas ==
    {HpaV2("web", ns, sh.opt, sh.metrics, sh.current, sh.conditions) :
        ns \in {"ns1", "ns2"}, sh \in V2Shapes}

----------------------------------------------------------------------------
(* The metrics goroutine *)

Bump(n) == IF n < 2 THEN n + 1 ELSE n

\* as FetchError, but the registry is reset before the error is looked at
FetchErrorResets ==
    /\ pc = "fetch"
    /\ ticks < MaxTicks
    /\ hpa' = <<>>
    /\ err' = TRUE
    /\ ticks' = ticks + 1
    /\ fetchRun' = Bump(fetchRun)
    /\ pc' = "fetch"
    /\ reg' = [f \in Families |-> NoLabels]
    /\ UNCHANGED <<variant, mainPc, annoLabel, annoLabelRev, lastHpa, prevHpa, loggingVars, pureVars, scrapeVars, historyVars>>

\* as FetchError, but the goroutine returns instead of continuing
FetchErrorEnds ==
    /\ pc = "fetch"
    /\ ticks < MaxTicks
    /\ hpa' = <<>>
    /\ err' = TRUE
    /\ ticks' = ticks + 1
    /\ fetchRun' = Bump(fetchRun)
    /\ pc' = "off"
    /\ UNCHANGED <<variant, mainPc, reg, annoLabel, annoLabelRev, lastHpa, prevHpa, loggingVars, pureVars, scrapeVars, historyVars>>

\* getHpaList fails: log.Errorln(err); continue
FetchError ==
    /\ pc = "fetch"
    /\ ticks < MaxTicks
    /\ hpa' = <<>>
    /\ err' = TRUE
    /\ ticks' = ticks + 1
    /\ fetchRun' = Bump(fetchRun)
    /\ pc' = "fetch"
    /\ UNCHANGED <<variant, mainPc, reg, annoLabel, annoLabelRev, lastHpa, prevHpa, loggingVars, pureVars, scrapeVars, historyVars>>

\* time.Sleep(metricsInterval)
Sleep ==
    /\ pc = "sleep"
    /\ pc' = "fetch"
    /\ fetchRun' = 0
    /\ UNCHANGED <<variant, mainPc, reg, annoLabel, annoLabelRev, hpa, err, lastHpa, prevHpa, ticks,
                   loggingVars, pureVars, scrapeVars, historyVars>>

\* part_003: a fetch that succeeds, and the loop over the list
CacheTick(lists) ==
    /\ variant = "cache"
    /\ pc = "fetch"
    /\ ticks < MaxTicks
    /\ \E list \in lists :
         LET st == CacheLoop([reg |-> reg, fwd |-> annoLabel, rev |-> annoLabelRev],
                             list, 1)
         IN  /\ reg' = st.reg
             /\ annoLabel' = st.fwd
             /\ annoLabelRev' = st.rev
             /\ hpa' = list
             /\ lastHpa' = list
             /\ lastBase' = WrittenBase(lastBase, list, 1)
    /\ err' = FALSE
    /\ ticks' = ticks + 1
    /\ fetchRun' = Bump(fetchRun)
    /\ pc' = "sleep"
    /\ UNCHANGED <<variant, mainPc, prevHpa, loggingVars, pureVars, scrapeVars>>

\* part_002: a fetch that succeeds, and the loop over the list
SetOnlyTick(lists) ==
    /\ variant = "setonly"
    /\ pc = "fetch"
    /\ ticks < MaxTicks
    /\ \E list \in lists :
         /\ reg' = SetOnlyLoop(reg, list, 1)
         /\ hpa' = list
         /\ lastHpa' = list
    /\ prevHpa' = lastHpa
    /\ err' = FALSE
    /\ ticks' = ticks + 1
    /\ fetchRun' = Bump(fetchRun)
    /\ pc' = "sleep"
    /\ UNCHANGED <<variant, mainPc, annoLabel, annoLabelRev, loggingVars, pureVars, scrapeVars, historyVars>>

\* main.go: a fetch that succeeds, and the loop over the list
V1Tick(lists) ==
    /\ variant = "v1"
    /\ pc = "fetch"
    /\ ticks < MaxTicks
    /\ \E list \in lists :
         LET st == V1Loop([reg |-> reg, panic |-> FALSE], list, 1)
         IN  /\ reg' = st.reg
             /\ pc' = IF st.panic THEN "panic" ELSE "sleep"
             /\ hpa' = list
             /\ lastHpa' = list
    /\ err' = FALSE
    /\ ticks' = ticks + 1
    /\ fetchRun' = Bump(fetchRun)
    /\ UNCHANGED <<variant, mainPc, annoLabel, annoLabelRev, prevHpa, loggingVars, pureVars, scrapeVars, historyVars>>

\* part_004: a fetch that succeeds, resetAllMetric, and the loop over the list
V2Tick(lists) ==
    /\ variant = "v2"
    /\ pc = "fetch"
    /\ ticks < MaxTicks
    /\ \E list \in lists :
         LET st == V2Loop([reg |-> resetAllMetric(reg), panic |-> FALSE], list, 1)
         IN  /\ reg' = st.reg
             /\ pc' = IF st.panic THEN "panic" ELSE "sleep"
             /\ hpa' = list
             /\ lastHpa' = list
             /\ prevHpa' = lastHpa
    /\ err' = FALSE
    /\ ticks' = ticks + 1
    /\ fetchRun' = Bump(fetchRun)
    /\ UNCHANGED <<variant, mainPc, annoLabel, annoLabelRev, loggingVars, pureVars, scrapeVars, historyVars>>

----------------------------------------------------------------------------
(* The condition-logging goroutine (part_002, part_003, part_004) *)

\* the record of one autoscaler: its name and its conditions, which the annotation
\* variants take as the raw text of the annotation
hpaConditionJsonString(a) ==
    IF variant = "v2"
    THEN [name |-> a.Name, conditions |-> a.Conditions]
    ELSE [name |-> a.Name, conditions |-> a.Annotations.conditions]

Records(list) == [i \in DOMAIN list |-> hpaConditionJsonString(list[i])]

\* the fetch fails: log.Errorln(err); continue
LogFetchError ==
    /\ logPc = "fetch"
    /\ pc # "panic"
    /\ logTicks < MaxLogTicks
    /\ logTicks' = logTicks + 1
    /\ logRun' = Bump(logRun)
    /\ UNCHANGED <<variant, mainPc, metricsVars, loggingTo, logPc, logged, pureVars, scrapeVars, historyVars>>

\* as LogTick, but the logging goroutine resets the GaugeVecs before it logs
LogTickResets(lists) ==
    /\ logPc = "fetch"
    /\ pc # "panic"
    /\ logTicks < MaxLogTicks
    /\ \E list \in lists, put \in BOOLEAN :
         /\ loggingTo = "stdout" => put
         /\ logged' = IF put THEN [to |-> loggingTo, records |-> Records(list)]
                      ELSE logged
    /\ logTicks' = logTicks + 1
    /\ logRun' = Bump(logRun)
    /\ logPc' = "sleep"
    /\ reg' = [f \in Families |-> NoLabels]
    /\ UNCHANGED <<variant, mainPc, annoLabel, annoLabelRev, pc, hpa, err, lastHpa,
                   prevHpa, ticks, fetchRun, loggingTo, pureVars, scrapeVars, historyVars>>

\* the fetch succeeds: one line per autoscaler on stdout, or one batch to
\* CloudWatch Logs, whose error (token or put) is dropped
LogTick(lists) ==
    /\ logPc = "fetch"
    /\ pc # "panic"
    /\ logTicks < MaxLogTicks
    /\ \E list \in lists, put \in BOOLEAN :
         /\ loggingTo = "stdout" => put
         /\ logged' = IF put THEN [to |-> loggingTo, records |-> Records(list)]
                      ELSE logged
    /\ logTicks' = logTicks + 1
    /\ logRun' = Bump(logRun)
    /\ logPc' = "sleep"
    /\ UNCHANGED <<variant, mainPc, metricsVars, loggingTo, pureVars, scrapeVars, historyVars>>

\* as LogSleep, but the logging goroutine waits until the metrics goroutine
\* has finished its fetch
LogSleepWaits ==
    /\ logPc = "sleep"
    /\ pc = "sleep"
    /\ logPc' = "fetch"
    /\ logRun' = 0
    /\ UNCHANGED <<variant, mainPc, metricsVars, loggingTo, logTicks, logged, pureVars, scrapeVars, historyVars>>

\* time.Sleep(loggingInterval)
LogSleep ==
    /\ logPc = "sleep"
    /\ pc # "panic"
    /\ logPc' = "fetch"
    /\ logRun' = 0
    /\ UNCHANGED <<variant, mainPc, metricsVars, loggingTo, logTicks, logged, pureVars, scrapeVars, historyVars>>

----------------------------------------------------------------------------
(* makeAnnotationCondLabels on its own *)

StatusValues == {"True", "False", "Unknown", "", "true"}

Conditions ==
    {Condition(t, s, r, m) :
        t \in {"AbleToScale", "ScalingLimited"}, s \in StatusValues,
        r \in {"", "R1", "R2"}, m \in {"", "m"}}

MakeLabels ==
    /\ variant \in {"cache", "v2"}
    /\ pc = "labels"
    /\ \E c \in Conditions :
         LET pair == IF variant = "v2" THEN makeAnnotationCondLabelsV2(c)
                     ELSE makeAnnotationCondLabels(c)
         IN  /\ cond' = c
             /\ labelForward' = pair[1]
             /\ labelReverse' = pair[2]
    /\ UNCHANGED <<variant, mainPc, metricsVars, loggingVars, parseVars, scrapeVars, historyVars>>

\* part_002 computes the two label sets inline: they are what it sets
MakeLabelsInline ==
    /\ variant = "setonly"
    /\ pc = "labels"
    /\ \E c \in Conditions :
         LET r == SetOnlyCondition(EmptyRegistry, NoLabels, c)[CondFamily(c.Type)]
         IN  /\ cond' = c
             /\ labelForward' = CHOOSE l \in DOMAIN r : r[l] = Float64(1)
             /\ labelReverse' = CHOOSE l \in DOMAIN r : r[l] = Float64(0)
    /\ UNCHANGED <<variant, mainPc, metricsVars, loggingVars, parseVars, scrapeVars, historyVars>>

----------------------------------------------------------------------------
(* Initial states *)

NoCondition == Condition("", "", "", "")

\* nothing has been gathered yet
NoScrape == [reg |-> EmptyRegistry, before |-> EmptyRegistry, after |-> EmptyRegistry,
             during |-> FALSE]

InitCommon ==
    /\ reg = EmptyRegistry
    /\ annoLabel = [t \in CondTypes |-> NoLabels]
    /\ annoLabelRev = [t \in CondTypes |-> NoLabels]
    /\ hpa = <<>>
    /\ err = FALSE
    /\ lastHpa = <<>>
    /\ prevHpa = <<>>
    /\ ticks = 0
    /\ fetchRun = 0
    /\ logRun = 0
    /\ logTicks = 0
    /\ logged = <<>>
    /\ cond = NoCondition
    /\ labelForward = NoLabels
    /\ labelReverse = NoLabels
    /\ side = ""
    /\ metricSource = UnknownMetric
    /\ parsed = <<0, NoLabels>>
    /\ inTick = <<>>
    /\ tickStart = EmptyRegistry
    /\ scraped = NoScrape
    /\ lastBase = [t \in CondTypes |-> NoLabels]

\* conditionLogging is off (its default): the metrics goroutine alone
InitMetrics ==
    /\ pc = "fetch"
    /\ logPc = "off"
    /\ loggingTo = "stdout"
    /\ mainPc = "serve"
    /\ InitCommon

Init == variant \in {"v1", "setonly", "cache", "v2"} /\ InitMetrics
InitV1 == variant = "v1" /\ InitMetrics
InitCache == variant = "cache" /\ InitMetrics
InitV2 == variant = "v2" /\ InitMetrics

\* conditionLogging is on: both goroutines; part_002 logs to stdout only
InitLog ==
    /\ variant \in {"setonly", "cache", "v2"}
    /\ loggingTo \in IF variant = "setonly" THEN {"stdout"} ELSE {"stdout", "cwlogs"}
    /\ pc = "fetch"
    /\ logPc = "fetch"
    /\ mainPc = "serve"
    /\ InitCommon

InitLabels ==
    /\ variant \in {"setonly", "cache", "v2"}
    /\ pc = "labels"
    /\ logPc = "off"
    /\ loggingTo = "stdout"
    /\ mainPc = "serve"
    /\ InitCommon

----------------------------------------------------------------------------
(* Specifications *)

\* every variant, the metrics goroutine
Next ==
    \/ V1Tick(Lists(V1Hpas))
    \/ SetOnlyTick(Lists(AnnoHpas))
    \/ CacheTick(Lists(AnnoHpas))
    \/ V2Tick(Lists(V2Hpas))
    \/ FetchError
    \/ Sleep

Spec == Init /\ [][Next]_vars

\* main.go
NextV1 == V1Tick(Lists(V1Hpas)) \/ FetchError \/ Sleep

SpecV1 == InitV1 /\ [][NextV1]_vars

\* part_003, on lists that differ in namespace, scale target and conditions
NextCache == CacheTick(Lists(CacheHpas)) \/ FetchError \/ Sleep

SpecCache == InitCache /\ [][NextCache]_vars

\* part_004
NextV2 == V2Tick(Lists(V2Hpas)) \/ FetchError \/ Sleep

SpecV2 == InitV2 /\ [][NextV2]_vars

\* both goroutines of the variants that have two, on lists of at most one autoscaler
LogHpas(v) == IF v = "v2" THEN {h \in V2Hpas : h.Namespace = "ns1" /\ h.Conditions # <<>>}
              ELSE {h \in AnnoHpas : h.MinReplicas # Nil /\ h.LastScaleTime # Nil}

LogLists(v) == {l \in Lists(LogHpas(v)) : Len(l) <= 1}

NextLog ==
    \/ SetOnlyTick(LogLists("setonly"))
    \/ CacheTick(LogLists("cache"))
    \/ V2Tick(LogLists("v2"))
    \/ FetchError
    \/ Sleep
    \/ LogTick(LogLists(variant))
    \/ LogFetchError
    \/ LogSleep

SpecLog == InitLog /\ [][NextLog]_vars

\* makeAnnotationCondLabels applied to one condition after another
NextLabels == MakeLabels \/ MakeLabelsInline

SpecLabels == InitLabels /\ [][NextLabels]_vars

----------------------------------------------------------------------------
(* Reading the registry *)

Range(seq) == {seq[i] : i \in DOMAIN seq}

\* the base labels of a series
BaseOf(l) == [k \in baseLabels |-> l[k]]

\* the series of family f in registry r that carry the base labels b, by value
SeriesAt(r, f, b, v) == {l \in DOMAIN r[f] : BaseOf(l) = b /\ r[f][l] = v}

\* the series of family f in registry r of the autoscaler ns/name, by value
SeriesOf(r, f, ns, name, v) ==
    {l \in DOMAIN r[f] : l.hpa_namespace = ns /\ l.hpa_name = name /\ r[f][l] = v}

CondSeries(r) == [f \in CondFamilies |-> r[f]]

\* a step of the metrics goroutine whose fetch succeeded
MetricsTickDone == pc = "fetch" /\ pc' = "sleep"

\* the annotation variants process autoscaler a and see condition c in its list
Observes(a, c) ==
    /\ ~jsonUnmarshal(a.Annotations.metrics).err
    /\ ~jsonUnmarshal(a.Annotations.conditions).err
    /\ c \in Range(jsonUnmarshal(a.Annotations.conditions).val)

----------------------------------------------------------------------------
(* Claims *)

\* C1: part_003: when one successful tick sees condition type T of an autoscaler
\* as {True, R1} and the next successful tick sees it, under the same base labels,
\* as {True, R2} with R2 # R1, then after the second tick the family of T holds,
\* under those base labels, exactly one series of value 1, with reason R2, exactly
\* one series of value 0, which is {False, "", ""}, and no series with reason R1.
C1_DeleteBeforeSet ==
    [][MetricsTickDone =>
        \A a \in Range(lastHpa), b \in Range(hpa') :
        \A c1 \in Range(a.Annotations.conditions.value),
           c2 \in Range(b.Annotations.conditions.value) :
            ( /\ baseLabel(a) = baseLabel(b)
              /\ Observes(a, c1) /\ Observes(b, c2)
              /\ c1.Type = c2.Type /\ c1.Type \in CondTypes
              /\ c1.Status = "True" /\ c2.Status = "True"
              /\ c1.Reason # c2.Reason )
            => LET f == CondFamily(c2.Type)
                   on == SeriesAt(reg', f, baseLabel(b), Float64(1))
                   off == SeriesAt(reg', f, baseLabel(b), Float64(0))
               IN  /\ Cardinality(on) = 1
                   /\ \A l \in on : l.cond_reason = c2.Reason
                   /\ Cardinality(off) = 1
                   /\ \A l \in off : /\ l.cond_status = "False"
                                     /\ l.cond_reason = ""
                                     /\ l.cond_message = ""
                   /\ \A l \in DOMAIN reg'[f] :
                        BaseOf(l) = baseLabel(b) => l.cond_reason # c1.Reason
    ]_vars

\* C2: part_003: in every reachable state, for every autoscaler (namespace and
\* name) and every condition family, the registry holds at most one series of
\* value 1 and at most one series of value 0.
C2_AtMostOneActiveAndInactive ==
    \A f \in CondFamilies : \A l \in DOMAIN reg[f] :
        /\ Cardinality(SeriesOf(reg, f, l.hpa_namespace, l.hpa_name, Float64(1))) <= 1
        /\ Cardinality(SeriesOf(reg, f, l.hpa_namespace, l.hpa_name, Float64(0))) <= 1

\* C4: two successful metrics ticks in a row on the same list leave the condition
\* series (label sets and values) after the second tick as they were after the
\* first.
C4_TickIdempotent ==
    [][(MetricsTickDone /\ ticks > 0 /\ ~err /\ hpa' = hpa)
        => CondSeries(reg') = CondSeries(reg)]_vars

\* a step of the metrics goroutine whose fetch succeeded, panic or not
MetricsFetched == pc = "fetch" /\ ticks' = ticks + 1 /\ ~err'

\* a step of the metrics goroutine whose fetch failed
MetricsFetchFailed == pc = "fetch" /\ ticks' = ticks + 1 /\ err'

\* after the step, series l of family f holds v
IsSet(f, l, v) == l \in DOMAIN reg'[f] /\ reg'[f][l] = v

\* the step has not set series l of family f: it is as it was before the step
Kept(f, l) ==
    /\ (l \in DOMAIN reg'[f]) = (l \in DOMAIN reg[f])
    /\ l \in DOMAIN reg[f] => reg'[f][l] = reg[f][l]

\* C3: in every variant, a metrics tick whose fetch returns an error leaves the
\* registry, and the condition caches of part_003, as they were.
C3_FetchErrorChangesNothing ==
    [][MetricsFetchFailed =>
        reg' = reg /\ annoLabel' = annoLabel /\ annoLabelRev' = annoLabelRev]_vars

\* C3 witness: part_003 has published conditions and its last fetch failed.
C3_Witness ==
    /\ variant = "cache" /\ err /\ ticks >= 2
    /\ reg["hpaAbleToScale"] # NoLabels
    /\ annoLabel["AbleToScale"] # NoLabels

\* C5: neither loop issues two fetches without a time.Sleep between them, also
\* when the first of the two failed.
C5_SleepBetweenFetches == fetchRun <= 1 /\ logRun <= 1

\* C6: part_004: one successful tick from the empty registry on a list of the one
\* autoscaler "web" (3 current, 5 desired, min 2, max 10 replicas, one Resource
\* current metric of utilization 72, one condition {AbleToScale, True,
\* ReadyForNewScale, ""}) yields current 3, desired 5, min 2, max 10, a current
\* metric series of kind Resource and value 72, the able-to-scale series {True,
\* ReadyForNewScale, ""} = 1 and {False, "", ""} = 0 and no other condition series.
C6_EndToEnd ==
    ( /\ variant = "v2" /\ ticks = 1 /\ ~err /\ Len(hpa) = 1
      /\ hpa[1].Name = "web"
      /\ hpa[1].CurrentReplicas = 3 /\ hpa[1].DesiredReplicas = 5
      /\ hpa[1].MinReplicas = Ptr(2) /\ hpa[1].MaxReplicas = 10
      /\ Len(hpa[1].CurrentMetrics) = 1
      /\ hpa[1].CurrentMetrics[1].Type = "Resource"
      /\ hpa[1].CurrentMetrics[1].Resource.CurrentAverageUtilization = Ptr(72)
      /\ hpa[1].Conditions =
            <<Condition("AbleToScale", "True", "ReadyForNewScale", "")>> )
    => LET l == baseLabel(hpa[1])
           on == l @@ [cond_status |-> "True", cond_reason |-> "ReadyForNewScale",
                       cond_message |-> ""]
           off == l @@ [cond_status |-> "False", cond_reason |-> "", cond_message |-> ""]
           cur == reg["hpaCurrentMetricsValue"]
       IN  /\ l.hpa_name = "web"
           /\ reg["hpaCurrentPodsNum"] = (l :> 3000)
           /\ reg["hpaDesiredPodsNum"] = (l :> 5000)
           /\ reg["hpaMinPodsNum"] = (l :> 2000)
           /\ reg["hpaMaxPodsNum"] = (l :> 10000)
           /\ Cardinality(DOMAIN cur) = 1
           /\ \A m \in DOMAIN cur :
                BaseOf(m) = l /\ m.metric_kind = "Resource" /\ cur[m] = 72000
           /\ reg["hpaAbleToScale"] = (on :> 1000) @@ (off :> 0)
           /\ reg["hpaScalingActive"] = NoLabels
           /\ reg["hpaScalingLimited"] = NoLabels

\* C6 witness: the first tick of part_004 fetched the list of the one autoscaler web.
C6_Witness == variant = "v2" /\ ticks = 1 /\ ~err /\ pc = "sleep" /\ hpa = <<Web>>

\* C7: makeAnnotationCondLabels: the forward label set carries the observed status,
\* reason and message; the reverse label set carries an empty reason and message,
\* and the status False when the observed status is True, True when it is
\* anything else.
C7_CondLabels ==
    labelForward # NoLabels =>
        /\ labelForward.cond_status = cond.Status
        /\ labelForward.cond_reason = cond.Reason
        /\ labelForward.cond_message = cond.Message
        /\ DOMAIN labelForward = annoLabels
        /\ DOMAIN labelReverse = annoLabels
        /\ labelReverse.cond_reason = ""
        /\ labelReverse.cond_message = ""
        /\ cond.Status = "True" => labelReverse.cond_status = "False"
        /\ cond.Status # "True" => labelReverse.cond_status = "True"

\* C7 witness: the function was applied to a condition whose status is Unknown.
C7_Witness ==
    /\ cond.Status = "Unknown" /\ cond.Reason = "R1"
    /\ labelForward # NoLabels /\ labelReverse # NoLabels

ThreePresent(a) ==
    /\ a.MinReplicas # Nil
    /\ a.CurrentCPUUtilizationPercentage # Nil
    /\ a.TargetCPUUtilizationPercentage # Nil

\* C8: main.go: for every autoscaler of a fetched list, when min replicas, current
\* and target CPU utilization are all present the tick sets the seven series to
\* the autoscaler's fields; when one of the three is absent the tick sets none of
\* its series and leaves those of earlier ticks as they were.
C8_V1AllOrNothing ==
    [][(variant = "v1" /\ MetricsFetched) =>
        \A a \in Range(hpa') :
            LET l == baseLabel(a) IN
            /\ ThreePresent(a) =>
                 /\ IsSet("hpaCurrentPodsNum", l, Float64(a.CurrentReplicas))
                 /\ IsSet("hpaDesiredPodsNum", l, Float64(a.DesiredReplicas))
                 /\ IsSet("hpaMinPodsNum", l, Float64(Deref(a.MinReplicas)))
                 /\ IsSet("hpaMaxPodsNum", l, Float64(a.MaxReplicas))
                 /\ IsSet("hpaCurrentCpuPercentage", l,
                          Float64(Deref(a.CurrentCPUUtilizationPercentage)))
                 /\ IsSet("hpaTargetCpuPercentage", l,
                          Float64(Deref(a.TargetCPUUtilizationPercentage)))
                 /\ a.LastScaleTime # Nil =>
                      IsSet("hpaLastScaleSecond", l, Float64(Deref(a.LastScaleTime).sec))
            /\ ~ThreePresent(a) => \A f \in Families : Kept(f, l)
    ]_vars

\* C9: part_002, part_003 and part_004: for every autoscaler a successful tick
\* processes, an absent min replicas, CPU utilization percentage or last scale
\* time leaves exactly that series unset (as it was, or absent after the reset of
\* part_004), not zero; the other series of the autoscaler are set, and so are
\* those of the autoscalers after it in the list.
C9_AbsentFieldSkipsOneSeries ==
    [][(variant \in {"setonly", "cache", "v2"} /\ MetricsFetched) =>
        \A a \in Range(hpa') :
            LET l == baseLabel(a)
                anno == variant # "v2"
                Unset(f) == IF anno THEN Kept(f, l) ELSE l \notin DOMAIN reg'[f]
                conds == IF anno THEN a.Annotations.conditions.value ELSE a.Conditions
            IN  (anno => /\ a.Annotations.metrics.valid
                         /\ a.Annotations.conditions.valid)
                =>
                /\ pc' = "sleep"
                /\ IsSet("hpaCurrentPodsNum", l, Float64(a.CurrentReplicas))
                /\ IsSet("hpaDesiredPodsNum", l, Float64(a.DesiredReplicas))
                /\ IsSet("hpaMaxPodsNum", l, Float64(a.MaxReplicas))
                /\ IF a.MinReplicas # Nil
                   THEN IsSet("hpaMinPodsNum", l, Float64(Deref(a.MinReplicas)))
                   ELSE Unset("hpaMinPodsNum")
                /\ IF a.LastScaleTime # Nil
                   THEN IsSet("hpaLastScaleSecond", l, Float64(Deref(a.LastScaleTime).sec))
                   ELSE Unset("hpaLastScaleSecond")
                /\ anno =>
                     /\ l \in DOMAIN reg'["hpaCurrentCpuValue"]
                     /\ IF a.CurrentCPUUtilizationPercentage # Nil
                        THEN IsSet("hpaCurrentCpuPercentage", l,
                                   Float64(Deref(a.CurrentCPUUtilizationPercentage)))
                        ELSE Unset("hpaCurrentCpuPercentage")
                     /\ IF a.TargetCPUUtilizationPercentage # Nil
                        THEN IsSet("hpaTargetCpuPercentage", l,
                                   Float64(Deref(a.TargetCPUUtilizationPercentage)))
                        ELSE Unset("hpaTargetCpuPercentage")
                /\ \A c \in Range(conds) : c.Type \in CondTypes =>
                     IsSet(CondFamily(c.Type),
                           l @@ [cond_status |-> c.Status, cond_reason |-> c.Reason,
                                 cond_message |-> c.Message], 1000)
    ]_vars

\* C9 witness: part_003 has processed a list whose first autoscaler has no min
\* replicas and whose second has them, after a tick that had set them.
C9_Witness ==
    /\ variant = "cache" /\ pc = "sleep" /\ ~err /\ ticks >= 2
    /\ Len(hpa) = 2
    /\ hpa[1].MinReplicas = Nil
    /\ hpa[1].Annotations.metrics.valid /\ hpa[1].Annotations.conditions.valid
    /\ baseLabel(hpa[1]) \in DOMAIN reg["hpaMinPodsNum"]
    /\ baseLabel(hpa[2]) \in DOMAIN reg["hpaCurrentPodsNum"]

\* C10: main.go: an autoscaler with the three fields present and no last scale
\* time does not fail the tick: its six other series are set, its last-scale
\* series is left as it was, and the loop goes on to sleep and to later ticks.
C10_V1AbsentLastScale ==
    [][(variant = "v1" /\ MetricsFetched) =>
        /\ pc' = "sleep"
        /\ \A a \in Range(hpa') :
             (ThreePresent(a) /\ a.LastScaleTime = Nil) =>
                 /\ IsSet("hpaCurrentPodsNum", baseLabel(a), Float64(a.CurrentReplicas))
                 /\ IsSet("hpaTargetCpuPercentage", baseLabel(a),
                          Float64(Deref(a.TargetCPUUtilizationPercentage)))
                 /\ Kept("hpaLastScaleSecond", baseLabel(a))
    ]_vars

\* an autoscaler whose current-metrics or conditions annotation does not parse
Malformed(a) ==
    jsonUnmarshal(a.Annotations.metrics).err \/ jsonUnmarshal(a.Annotations.conditions).err

\* the list without its i-th element
RemoveAt(list, i) == SubSeq(list, 1, i - 1) \o SubSeq(list, i + 1, Len(list))

\* the series of autoscaler a in family f are what they were before the step
SeriesKept(f, a) ==
    \A l \in DOMAIN reg[f] \cup DOMAIN reg'[f] :
        (l.hpa_namespace = a.Namespace /\ l.hpa_name = a.Name) => Kept(f, l)

\* the cache entries under the name of autoscaler a are what they were before the step
CacheKept(a) ==
    \A t \in CondTypes :
        /\ (a.Name \in DOMAIN annoLabel'[t]) = (a.Name \in DOMAIN annoLabel[t])
        /\ Lookup(annoLabel'[t], a.Name) = Lookup(annoLabel[t], a.Name)
        /\ (a.Name \in DOMAIN annoLabelRev'[t]) = (a.Name \in DOMAIN annoLabelRev[t])
        /\ Lookup(annoLabelRev'[t], a.Name) = Lookup(annoLabelRev[t], a.Name)

\* the step leaves the registry and the caches as the tick on list would
TickOn(list) ==
    IF variant = "cache"
    THEN LET st == CacheLoop([reg |-> reg, fwd |-> annoLabel, rev |-> annoLabelRev],
                             list, 1)
         IN  reg' = st.reg /\ annoLabel' = st.fwd /\ annoLabelRev' = st.rev
    ELSE reg' = SetOnlyLoop(reg, list, 1)

\* C11: part_002, part_003: when an annotation of one autoscaler of the fetched
\* list does not parse, the tick leaves that autoscaler's series and its cache
\* entries as they were, handles the other autoscalers of the list as if the
\* malformed one were not in it, and goes on to the sleep and the next tick.
C11_MalformedAnnotationSkipsOne ==
    [][(variant \in {"setonly", "cache"} /\ MetricsFetched) =>
        \A i \in DOMAIN hpa' :
            Malformed(hpa'[i]) =>
                /\ \A f \in Families : SeriesKept(f, hpa'[i])
                /\ CacheKept(hpa'[i])
                /\ TickOn(RemoveAt(hpa', i))
                /\ pc' = "sleep"
    ]_vars

\* the commonMetrics of a target metric and of a current metric of a known kind
TargetCommon(metric) ==
    CASE metric.Type = "Object" -> parseObjectSpec(metric.Object)
      [] metric.Type = "Pods" -> parsePodsSpec(metric.Pods)
      [] metric.Type = "Resource" -> parseResourceSpec(metric.Resource)
      [] metric.Type = "External" -> parseExternalSpec(metric.External)

CurrentCommon(metric) ==
    CASE metric.Type = "Object" -> parseObjectStatus(metric.Object)
      [] metric.Type = "Pods" -> parsePodsStatus(metric.Pods)
      [] metric.Type = "Resource" -> parseResourceStatus(metric.Resource)
      [] metric.Type = "External" -> parseExternalStatus(metric.External)

\* the positions of a metrics list whose kind the switch has a case for
Known(metrics) == {i \in DOMAIN metrics : metrics[i].Type \in MetricTypes}

\* the series of family f that carry the base labels b
SeriesUnder(r, f, b) == {l \in DOMAIN r[f] : BaseOf(l) = b}

\* C12: part_004: a target or current metric whose kind is none of Object, Pods,
\* Resource, External yields no series and no error: the tick reaches the sleep,
\* and for every autoscaler of the list the two metric families hold exactly the
\* series of its metrics of a known kind, and its base and condition series are set.
C12_UnknownKindSkipped ==
    [][(variant = "v2" /\ MetricsFetched) =>
        /\ pc' = "sleep"
        /\ \A a \in Range(hpa') :
            LET l == baseLabel(a)
                tl(i) == l @@ parseCommonMetrics(TargetCommon(a.Metrics[i]))[2]
                cl(i) == l @@ parseCommonMetrics(CurrentCommon(a.CurrentMetrics[i]))[2]
            IN  /\ SeriesUnder(reg', "hpaTargetMetricsValue", l)
                     = {tl(i) : i \in Known(a.Metrics)}
                /\ SeriesUnder(reg', "hpaCurrentMetricsValue", l)
                     = {cl(i) : i \in Known(a.CurrentMetrics)}
                /\ \A i \in Known(a.Metrics) :
                     (\A j \in Known(a.Metrics) : j > i => tl(j) # tl(i))
                     => reg'["hpaTargetMetricsValue"][tl(i)]
                            = parseCommonMetrics(TargetCommon(a.Metrics[i]))[1]
                /\ \A i \in Known(a.CurrentMetrics) :
                     (\A j \in Known(a.CurrentMetrics) : j > i => cl(j) # cl(i))
                     => reg'["hpaCurrentMetricsValue"][cl(i)]
                            = parseCommonMetrics(CurrentCommon(a.CurrentMetrics[i]))[1]
                /\ IsSet("hpaCurrentPodsNum", l, Float64(a.CurrentReplicas))
                /\ IsSet("hpaDesiredPodsNum", l, Float64(a.DesiredReplicas))
                /\ IsSet("hpaMaxPodsNum", l, Float64(a.MaxReplicas))
                /\ a.MinReplicas # Nil =>
                     IsSet("hpaMinPodsNum", l, Float64(Deref(a.MinReplicas)))
                /\ a.LastScaleTime # Nil =>
                     IsSet("hpaLastScaleSecond", l, Float64(Deref(a.LastScaleTime).sec))
                /\ \A c \in Range(a.Conditions) : c.Type \in CondTypes =>
                     IsSet(CondFamily(c.Type),
                           l @@ [cond_status |-> c.Status, cond_reason |-> c.Reason,
                                 cond_message |-> c.Message], Float64(1))
    ]_vars

\* C12 witness: a tick of part_004 has handled a list in which one autoscaler has a
\* current metric of an unknown kind, with conditions, and another a target metric
\* of an unknown kind.
C12_Witness ==
    /\ variant = "v2" /\ pc = "sleep" /\ ~err
    /\ \E i, j \in DOMAIN hpa :
         /\ \E m \in Range(hpa[i].CurrentMetrics) : m.Type \notin MetricTypes
         /\ \E m \in Range(hpa[j].Metrics) : m.Type \notin MetricTypes
         /\ hpa[i].Conditions # <<>>
         /\ SeriesUnder(reg, "hpaAbleToScale", baseLabel(hpa[i])) # {}
         /\ SeriesUnder(reg, "hpaTargetMetricsValue", baseLabel(hpa[j])) # {}

----------------------------------------------------------------------------
(* part_004: the parse functions on their own *)

Quantities == {Quantity(0), Quantity(500), Quantity(2500), Quantity(4000)}
QuantityPtrs == {Nil} \cup {Ptr(q) : q \in Quantities}
Utilizations == {Nil, Ptr(0), Ptr(72), Ptr(80)}
ResourceNames == {"cpu", "memory"}
MetricNames == {"queue", "hits"}

\* the metrics of a.Spec.Metrics that the API server admits
ParseTargets ==
    {[ResourceTarget(u, q) EXCEPT !.Resource.Name = n] :
        u \in Utilizations, q \in QuantityPtrs, n \in ResourceNames}
    \cup {[ExternalTarget(v, q) EXCEPT !.External.MetricName = n] :
            v \in QuantityPtrs, q \in QuantityPtrs, n \in MetricNames}
    \cup {[ObjectTarget(q.milli) EXCEPT !.Object.MetricName = n] :
            q \in Quantities, n \in MetricNames}
    \cup {[PodsTarget(q.milli) EXCEPT !.Pods.MetricName = n] :
            q \in Quantities, n \in MetricNames}

\* the metrics of a.Status.CurrentMetrics
ParseCurrents ==
    {[ResourceCurrent(u, q.milli) EXCEPT !.Resource.Name = n] :
        u \in Utilizations, q \in Quantities, n \in ResourceNames}
    \cup {[ExternalCurrent(v.milli, q) EXCEPT !.External.MetricName = n] :
            v \in Quantities, q \in QuantityPtrs, n \in MetricNames}
    \cup {[ObjectCurrent(q.milli) EXCEPT !.Object.MetricName = n] :
            q \in Quantities, n \in MetricNames}
    \cup {[PodsCurrent(q.milli) EXCEPT !.Pods.MetricName = n] :
            q \in Quantities, n \in MetricNames}

\* parse<Kind>Spec, then parseCommonMetrics
ParseSpec ==
    /\ pc = "parse"
    /\ \E m \in ParseTargets :
         /\ ~SpecPanics(m)
         /\ side' = "target"
         /\ metricSource' = m
         /\ parsed' = parseCommonMetrics(TargetCommon(m))
    /\ UNCHANGED <<variant, mainPc, metricsVars, loggingVars, condVars, scrapeVars, historyVars>>

\* parse<Kind>Status, then parseCommonMetrics
ParseStatus ==
    /\ pc = "parse"
    /\ \E m \in ParseCurrents :
         /\ side' = "current"
         /\ metricSource' = m
         /\ parsed' = parseCommonMetrics(CurrentCommon(m))
    /\ UNCHANGED <<variant, mainPc, metricsVars, loggingVars, condVars, scrapeVars, historyVars>>

InitParse ==
    /\ variant = "v2"
    /\ pc = "parse"
    /\ logPc = "off"
    /\ loggingTo = "stdout"
    /\ mainPc = "serve"
    /\ InitCommon

NextParse == ParseSpec \/ ParseStatus

SpecParse == InitParse /\ [][NextParse]_vars

\* C13: part_004, target side and current side: a Resource metric yields the
\* labels (Resource, resource name, "-") and the utilization percentage when there
\* is one, else the average quantity's milli value / 1000; an External metric
\* yields (External, "-", metric name) and the average quantity / 1000 when there
\* is one, else the plain quantity / 1000; an Object metric of 2500 milli yields
\* 2.5 and a Resource metric of utilization 80 yields 80.
C13_MetricConversion ==
    side # "" =>
        LET m == metricSource
            v == parsed[1]
            l == parsed[2]
            target == side = "target"
            res == m.Resource
            ext == m.External
            util == IF target THEN res.TargetAverageUtilization
                    ELSE res.CurrentAverageUtilization
            resAvg == IF target THEN Deref(res.TargetAverageValue).milli
                      ELSE res.CurrentAverageValue.milli
            extAvg == IF target THEN ext.TargetAverageValue ELSE ext.CurrentAverageValue
            extPlain == IF target THEN Deref(ext.TargetValue).milli
                        ELSE ext.CurrentValue.milli
            obj == IF target THEN m.Object.TargetValue ELSE m.Object.CurrentValue
        IN  /\ m.Type = "Resource" =>
                 /\ l = [metric_kind |-> "Resource", metric_name |-> res.Name,
                         metric_metricname |-> "-"]
                 /\ v = IF util # Nil THEN Deref(util) * 1000 ELSE resAvg
                 /\ util = Ptr(80) => v = 80 * 1000
            /\ m.Type = "External" =>
                 /\ l = [metric_kind |-> "External", metric_name |-> "-",
                         metric_metricname |-> ext.MetricName]
                 /\ v = IF extAvg # Nil THEN Deref(extAvg).milli ELSE extPlain
            /\ (m.Type = "Object" /\ obj.milli = 2500) => v = 2000 + 500

\* C13 witness: parseExternalStatus was applied to a metric whose average value is
\* present and differs from its plain value.
C13_Witness ==
    /\ side = "current" /\ metricSource.Type = "External"
    /\ metricSource.External.CurrentAverageValue # Nil
    /\ Deref(metricSource.External.CurrentAverageValue).milli
         # metricSource.External.CurrentValue.milli
    /\ parsed[1] = 2500

----------------------------------------------------------------------------
(* part_003, part_004: main() up to http.ListenAndServe *)

\* validateFlags: whether it returns an error
validateFlags(to) == ~(to = "stdout" \/ to = "cwlogs")

\* checkLogGroup: whether it returns an error, from what DescribeLogGroups
\* returns (an error, or the number of groups found) and what CreateLogGroup does
checkLogGroup(describeErr, groups, createErr) ==
    IF ~describeErr
    THEN IF groups = 0 THEN createErr ELSE FALSE
    ELSE TRUE

\* part_003 calls checkLogGroup always, part_004 when conditionLogging is set
\* (logPc = "start" until the goroutine is launched)
CallsCheckLogGroup == variant = "cache" \/ logPc = "start"

\* as Startup, but the goroutines are launched before the log group is checked
StartupLaunchesFirst ==
    /\ mainPc = "start"
    /\ \E describeErr \in BOOLEAN, groups \in {0, 1}, createErr \in BOOLEAN :
         LET e == \/ validateFlags(loggingTo)
                  \/ CallsCheckLogGroup /\ checkLogGroup(describeErr, groups, createErr)
         IN  /\ mainPc' = IF e THEN "panic" ELSE "serve"
             /\ pc' = "fetch"
             /\ logPc' = IF logPc = "start" THEN "fetch" ELSE "off"
    /\ UNCHANGED <<variant, reg, annoLabel, annoLabelRev, hpa, err, lastHpa, prevHpa, ticks,
                   fetchRun, loggingTo, logRun, logTicks, logged, pureVars, scrapeVars, historyVars>>

\* main: flags, log group, then the goroutines and the HTTP endpoint; panic(e)
\* ends the process before either goroutine is launched
Startup ==
    /\ mainPc = "start"
    /\ \E describeErr \in BOOLEAN, groups \in {0, 1}, createErr \in BOOLEAN :
         LET e == \/ validateFlags(loggingTo)
                  \/ CallsCheckLogGroup /\ checkLogGroup(describeErr, groups, createErr)
         IN  IF e
             THEN mainPc' = "panic" /\ UNCHANGED <<pc, logPc>>
             ELSE /\ mainPc' = "serve"
                  /\ pc' = "fetch"
                  /\ logPc' = IF logPc = "start" THEN "fetch" ELSE "off"
    /\ UNCHANGED <<variant, reg, annoLabel, annoLabelRev, hpa, err, lastHpa, prevHpa, ticks,
                   fetchRun, loggingTo, logRun, logTicks, logged, pureVars, scrapeVars, historyVars>>

\* the process before main runs: the flags are parsed, no goroutine is launched
InitStart ==
    /\ variant \in {"cache", "v2"}
    /\ mainPc = "start"
    /\ loggingTo \in {"stdout", "cwlogs", "file"}
    /\ pc = "off"
    /\ logPc \in {"off", "start"}
    /\ InitCommon

NextStart ==
    \/ Startup
    \/ CacheTick(LogLists("cache"))
    \/ V2Tick(LogLists("v2"))
    \/ FetchError
    \/ Sleep
    \/ LogTick(LogLists(variant))
    \/ LogFetchError
    \/ LogSleep

SpecStart == InitStart /\ [][NextStart]_vars

\* C14: when checkLogGroup fails at startup the process ends before either loop
\* has fetched and before the HTTP endpoint serves: no goroutine is launched, the
\* registry is empty, and the process takes no further step.
C14_StartupAbortsBeforeServing ==
    [][/\ (mainPc' = "panic" /\ ~validateFlags(loggingTo)) =>
            /\ mainPc = "start"
            /\ pc' = "off" /\ logPc' \in {"off", "start"}
            /\ ticks' = 0 /\ logTicks' = 0 /\ logged' = <<>>
            /\ reg' = EmptyRegistry
       /\ mainPc # "panic"
    ]_vars

\* C14 witness: part_004 with conditionLogging set and valid flags has ended in
\* the panic of main.
C14_Witness ==
    /\ variant = "v2" /\ mainPc = "panic" /\ logPc = "start"
    /\ loggingTo = "cwlogs" /\ reg = EmptyRegistry /\ ticks = 0

\* the registry part_004 builds from a list: resetAllMetric, then the loop
V2Published(list) ==
    V2Loop([reg |-> resetAllMetric(EmptyRegistry), panic |-> FALSE], list, 1).reg

\* C15: part_004: after a metrics tick whose fetch fails the registry holds no
\* series at all; part_003 keeps the series of the last successful tick.
C15_ResetLosesSeriesOnError ==
    [][MetricsFetchFailed =>
        /\ variant = "v2" => reg' = EmptyRegistry
        /\ variant = "cache" => reg' = reg
    ]_vars

\* C15, amended: part_004 resets after the error check, so a metrics tick whose
\* fetch fails leaves its registry as it was, holding the series of the last
\* successful tick, as part_003 does.
C15_FetchErrorKeepsSeries ==
    [][(MetricsFetchFailed /\ variant \in {"v2", "cache"}) =>
        /\ reg' = reg
        /\ variant = "v2" => reg' = V2Published(lastHpa')
    ]_vars

\* C15 witness: the last fetch of part_004 failed after a tick that published the
\* series of a list, and they are still there.
C15_Witness ==
    /\ variant = "v2" /\ err /\ pc = "fetch"
    /\ lastHpa # <<>>
    /\ reg # EmptyRegistry
    /\ reg = V2Published(lastHpa)

\* the series of autoscaler a in family f, by what a holds: part_004 sets these
SnapshotSeries(f, a) ==
    LET l == baseLabel(a)
    IN  CASE f \in {"hpaCurrentPodsNum", "hpaDesiredPodsNum", "hpaMaxPodsNum"} -> {l}
          [] f = "hpaMinPodsNum" -> IF a.MinReplicas # Nil THEN {l} ELSE {}
          [] f = "hpaLastScaleSecond" -> IF a.LastScaleTime # Nil THEN {l} ELSE {}
          [] f = "hpaTargetMetricsValue" ->
                {l @@ parseCommonMetrics(TargetCommon(a.Metrics[i]))[2] :
                    i \in Known(a.Metrics)}
          [] f = "hpaCurrentMetricsValue" ->
                {l @@ parseCommonMetrics(CurrentCommon(a.CurrentMetrics[i]))[2] :
                    i \in Known(a.CurrentMetrics)}
          [] f \in CondFamilies ->
                UNION {{l @@ makeAnnotationCondLabelsV2(c)[1],
                        l @@ makeAnnotationCondLabelsV2(c)[2]} :
                       c \in {x \in Range(a.Conditions) : CondFamily(x.Type) = f}}

\* C16: part_004: after every successful metrics tick the series of each of the
\* ten families are exactly those of the autoscalers, metrics, conditions and
\* optional fields of that tick's list; nothing an earlier tick published is left.
C16_RegistryIsSnapshot ==
    [][(variant = "v2" /\ MetricsFetched /\ pc' = "sleep") =>
        /\ \A f \in collectors :
             DOMAIN reg'[f] = UNION {SnapshotSeries(f, a) : a \in Range(hpa')}
        /\ reg' = V2Published(hpa')
    ]_vars

\* C16 witness: a tick of part_004 published two autoscalers with conditions and
\* metrics, the next one fetched only one of them, without min replicas, and the
\* registry holds no series of the other one and no min-replicas series.
C16_Witness ==
    /\ variant = "v2" /\ pc = "sleep" /\ ~err
    /\ Len(prevHpa) = 2 /\ Len(hpa) = 1
    /\ prevHpa[1].MinReplicas # Nil /\ prevHpa[1].Conditions # <<>>
    /\ prevHpa[2].Conditions # <<>> /\ prevHpa[2].Metrics # <<>>
    /\ hpa[1].Namespace = prevHpa[1].Namespace
    /\ hpa[1].MinReplicas = Nil
    /\ reg["hpaMinPodsNum"] = NoLabels
    /\ \A f \in Families : SeriesUnder(reg, f, baseLabel(prevHpa[2])) = {}

\* the conditions part_003 reads from the annotation of a ("" when it skips a)
CondsOf(a) == IF Malformed(a) THEN <<>> ELSE jsonUnmarshal(a.Annotations.conditions).val

\* the two series that handling condition c of autoscaler a sets
SeriesSetFor(a, c) ==
    {mergeLabels(baseLabel(a), makeAnnotationCondLabels(c)[1]),
     mergeLabels(baseLabel(a), makeAnnotationCondLabels(c)[2])}

\* part_003, inside a tick on list from the state st: the state when the loop
\* reaches condition j of autoscaler i
CacheStateAt(st, list, i, j) ==
    LET a == list[i]
        before == CacheLoop(st, SubSeq(list, 1, i - 1), 1)
        metrics == jsonUnmarshal(a.Annotations.metrics)
        cpuVal == IF Len(metrics.val) # 0
                  THEN currentAverageCpuValue(metrics.val[1])
                  ELSE 0
        based == [before EXCEPT !.reg = AnnotationBase(before.reg, a, baseLabel(a), cpuVal)]
    IN  CacheConditions(based, baseLabel(a), a.Name, SubSeq(CondsOf(a), 1, j - 1), 1)

\* the series that the two Delete calls for condition c of autoscaler a remove
\* from the registry of st
DeletedBy(st, a, c) ==
    LET f == CondFamily(c.Type)
        r1 == Delete(st.reg, f, mergeLabels(baseLabel(a), Lookup(st.fwd[c.Type], a.Name)))
        r2 == Delete(r1, f, mergeLabels(baseLabel(a), Lookup(st.rev[c.Type], a.Name)))
    IN  DOMAIN st.reg[f] \ DOMAIN r2[f]

\* the last condition of type t in a list of conditions
LastOfType(conds, t) ==
    conds[CHOOSE j \in DOMAIN conds :
            conds[j].Type = t /\ \A k \in DOMAIN conds : conds[k].Type = t => k <= j]

\* C17: part_003: when a tick relabels condition type T of autoscaler A, the
\* series it deletes are exactly the two that the most recent earlier tick set for
\* A and T, and none when A is observed for the first time. Stated for a tick
\* on the empty registry, and for an autoscaler that the previous successful tick
\* handled.
C17_DeletesWhatWasSet ==
    [][(variant = "cache" /\ MetricsTickDone) =>
        LET st == [reg |-> reg, fwd |-> annoLabel, rev |-> annoLabelRev]
        IN  \A i \in DOMAIN hpa' :
            LET a == hpa'[i]
                conds == CondsOf(a)
            IN  \A j \in DOMAIN conds :
                LET c == conds[j]
                    first == \A k \in 1..(j - 1) : conds[k].Type # c.Type
                    deleted == DeletedBy(CacheStateAt(st, hpa', i, j), a, c)
                    earlier == {b \in Range(lastHpa) :
                                  /\ b.Namespace = a.Namespace /\ b.Name = a.Name
                                  /\ \E x \in Range(CondsOf(b)) : x.Type = c.Type}
                IN  (c.Type \in CondTypes /\ first) =>
                        /\ reg = EmptyRegistry => deleted = {}
                        /\ \A b \in earlier :
                             deleted = SeriesSetFor(b, LastOfType(CondsOf(b), c.Type))
    ]_vars

----------------------------------------------------------------------------
(* part_002: a replaced reason or message *)

\* one autoscaler whose AbleToScale condition changes its reason and message
\* under one status, its status, or its scale target; and one more namespace
SetOnlyHpas ==
    {HpaV1("web", "ns1", "d1", AllSet, Json(<<>>), Json(<<c>>)) :
        c \in {Condition("AbleToScale", "True", "", ""),
               Condition("AbleToScale", "True", "R1", ""),
               Condition("AbleToScale", "False", "R2", "m")}}
    \cup {HpaV1("web", "ns1", "d2", AllSet, Json(<<>>),
                Json(<<Condition("AbleToScale", "True", "R1", "")>>)),
          HpaV1("web", "ns2", "d1", AllSet, Json(<<>>),
                Json(<<Condition("ScalingActive", "Unknown", "R1", "")>>))}

InitSetOnly == variant = "setonly" /\ InitMetrics

NextSetOnly == SetOnlyTick(Lists(SetOnlyHpas)) \/ FetchError \/ Sleep

SpecSetOnly == InitSetOnly /\ [][NextSetOnly]_vars

\* the active series <<family, labels>> of the list old whose condition has,
\* in the list new, the same base labels, type and status and another reason
\* or message
ReplacedSeries(old, new) ==
    {<<CondFamily(c.Type), mergeLabels(baseLabel(b), makeAnnotationCondLabels(c)[1])>> :
        <<b, c>> \in {bc \in UNION {{<<x, y>> : y \in Range(CondsOf(x))} : x \in Range(old)} :
            /\ bc[2].Type \in CondTypes
            /\ \E a \in Range(new) : \E d \in Range(CondsOf(a)) :
                 /\ baseLabel(a) = baseLabel(bc[1])
                 /\ d.Type = bc[2].Type
                 /\ d.Status = bc[2].Status
                 /\ d.Reason # bc[2].Reason \/ d.Message # bc[2].Message}}

\* the series <<family, labels>> a tick on list sets to 0
InactiveSeries(list) ==
    {<<CondFamily(c.Type), mergeLabels(baseLabel(a), makeAnnotationCondLabels(c)[2])>> :
        <<a, c>> \in {ac \in UNION {{<<x, y>> : y \in Range(CondsOf(x))} : x \in Range(list)} :
            ac[2].Type \in CondTypes}}

HasValue(r, s, v) == s[2] \in DOMAIN r[s[1]] /\ r[s[1]][s[2]] = v

\* C18: part_002: when a condition's reason or message differs between two
\* successful ticks, with the same base labels and status, the series with the
\* old reason and message has value 1 after the second tick and after the
\* tick that follows it
C18_OldSeriesStaysOne ==
    [][(variant = "setonly" /\ MetricsTickDone) =>
        \A s \in ReplacedSeries(lastHpa, hpa') \cup ReplacedSeries(prevHpa, lastHpa) :
            HasValue(reg', s, Float64(1))
    ]_vars

\* C18, amended: the series with the old reason and message stays in the
\* registry after the second tick and after the tick that follows it; it has
\* value 1 unless its reason and message are both empty, and then unless the
\* tick sets it, as the inactive series of a condition, to 0
C18_OldSeriesStays ==
    [][(variant = "setonly" /\ MetricsTickDone) =>
        \A s \in ReplacedSeries(lastHpa, hpa') \cup ReplacedSeries(prevHpa, lastHpa) :
            /\ s[2] \in DOMAIN reg'[s[1]]
            /\ (s[2].cond_reason # "" \/ s[2].cond_message # "")
                   => HasValue(reg', s, Float64(1))
            /\ s \notin InactiveSeries(hpa') => HasValue(reg', s, Float64(1))
            /\ s \in InactiveSeries(hpa') =>
                   s[2].cond_reason = "" /\ s[2].cond_message = ""
    ]_vars

\* the third tick is over; the second replaced a reason, and the old series
\* is still there with value 1 beside the new one
C18_Witness ==
    /\ variant = "setonly" /\ pc = "sleep" /\ ticks = 3
    /\ \E s \in ReplacedSeries(prevHpa, lastHpa) :
         /\ HasValue(reg, s, Float64(1))
         /\ s[2].cond_reason # ""
         /\ \E l \in DOMAIN reg[s[1]] :
              /\ l # s[2] /\ BaseOf(l) = BaseOf(s[2])
              /\ l.cond_status = s[2].cond_status
              /\ reg[s[1]][l] = Float64(1)

----------------------------------------------------------------------------
(* The logging goroutine and the registry *)

\* a step of the logging goroutine: its fetch fails, it logs, or it sleeps
LogStep == logPc' # logPc \/ logTicks' # logTicks

\* C19: in part_002, part_003 and part_004 no step of the logging goroutine,
\* failed fetch, stdout or CloudWatch Logs, changes a series of the registry
\* or an entry of the condition caches
C19_LoggingLeavesRegistry ==
    [][LogStep => UNCHANGED <<reg, annoLabel, annoLabelRev>>]_vars

\* both goroutines have run: the registry and a cache entry are filled, two
\* logging ticks are over and the last one that logged sent a record
C19_Witness ==
    /\ variant = "cache" /\ loggingTo = "cwlogs"
    /\ logPc = "sleep" /\ logTicks = 2
    /\ logged # <<>> /\ logged.records # <<>>
    /\ reg # EmptyRegistry
    /\ \E t \in CondTypes : annoLabel[t] # NoLabels

----------------------------------------------------------------------------
(* A call that never returns *)

\* the List call of getHpaList / getHpaListV2 in the metrics goroutine hangs
FetchHang ==
    /\ variant \in {"setonly", "cache", "v2"}
    /\ pc = "fetch"
    /\ pc' = "hung"
    /\ UNCHANGED <<variant, mainPc, reg, annoLabel, annoLabelRev, hpa, err, lastHpa,
                   prevHpa, ticks, fetchRun, loggingVars, pureVars, scrapeVars, historyVars>>

\* the List call in the logging goroutine hangs, or, with cwlogs, a call of
\* putHPAConditionToCWLog (DescribeLogStreams, PutLogEvents) does
LogHang ==
    /\ logPc = "fetch"
    /\ pc # "panic"
    /\ logPc' = "hung"
    /\ UNCHANGED <<variant, mainPc, metricsVars, loggingTo, logRun, logTicks, logged,
                   pureVars, scrapeVars, historyVars>>

\* the lists the two goroutines fetch here: no autoscaler, or one
HangLists(v) == {<<>>, <<CHOOSE h \in LogHpas(v) : TRUE>>}

\* a call that does not hang returns, with a list or with an error
FetchReturns ==
    \/ SetOnlyTick(HangLists("setonly"))
    \/ CacheTick(HangLists("cache"))
    \/ V2Tick(HangLists("v2"))
    \/ FetchError

LogFetchReturns == LogTick(HangLists(variant)) \/ LogFetchError

NextHang ==
    \/ SetOnlyTick(HangLists("setonly"))
    \/ CacheTick(HangLists("cache"))
    \/ V2Tick(HangLists("v2"))
    \/ FetchError
    \/ Sleep
    \/ FetchHang
    \/ LogTick(HangLists(variant))
    \/ LogFetchError
    \/ LogSleep
    \/ LogHang

\* each goroutine is scheduled again and again, its sleep ends, and a call
\* that has not hung returns
FairHang ==
    /\ WF_vars(FetchReturns)
    /\ WF_vars(Sleep)
    /\ WF_vars(LogFetchReturns)
    /\ WF_vars(LogSleep)

SpecHang == InitLog /\ [][NextHang]_vars /\ FairHang

\* C20: once the fetch of the metrics goroutine hangs, the logging goroutine
\* completes its next tick (unless its own call hangs), and once a call of the
\* logging goroutine hangs, the metrics goroutine completes its next tick
\* (unless its own fetch hangs); ticks are counted up to MaxLogTicks, MaxTicks
C20_TasksNeverWait ==
    /\ \A n \in 0..(MaxLogTicks - 1) :
         (pc = "hung" /\ logTicks = n) ~> (logTicks > n \/ logPc = "hung")
    /\ \A n \in 0..(MaxTicks - 1) :
         (logPc = "hung" /\ ticks = n) ~> (ticks > n \/ pc = "hung")

\* the metrics goroutine hangs in its first fetch and the logging goroutine
\* has completed every tick and logged; or the other way round, with a
\* registry the metrics goroutine has filled
C20_Witness ==
    \/ /\ pc = "hung" /\ ticks = 0 /\ reg = EmptyRegistry
       /\ logTicks = MaxLogTicks /\ logPc = "sleep"
       /\ logged # <<>> /\ logged.records # <<>>
    \/ /\ logPc = "hung" /\ logTicks = 0 /\ logged = <<>>
       /\ ticks = MaxTicks /\ pc = "sleep" /\ reg # EmptyRegistry

----------------------------------------------------------------------------
(* Failed fetches, and the fetch that succeeds after them *)

InitRetry == variant \in {"cache", "v2"} /\ InitMetrics

\* the autoscalers fetched here: part_003, ns1/web with each condition list and
\* ns2/web with one; part_004, ns1/web without min replicas, with metrics of
\* an unknown kind, and ns2/web without last scale time
RetryHpas(v) ==
    IF v = "v2"
    THEN {h \in V2Hpas : \/ h.Namespace = "ns1" /\ h.MinReplicas = Nil
                         \/ h.Namespace = "ns2" /\ h.LastScaleTime = Nil}
    ELSE {h \in CacheHpas :
            /\ h.ScaleTargetRef.Name = "d1"
            /\ h.Namespace = "ns2" => Len(CondsOf(h)) = 2}

\* the List call of the metrics goroutine returns, with a list or with an error
RetryFetchReturns ==
    \/ CacheTick(Lists(RetryHpas("cache")))
    \/ V2Tick(Lists(RetryHpas("v2")))
    \/ FetchError

NextRetry ==
    \/ CacheTick(Lists(RetryHpas("cache")))
    \/ V2Tick(Lists(RetryHpas("v2")))
    \/ FetchError
    \/ Sleep

\* the goroutine is scheduled again and again, its List call returns and its
\* sleep ends
SpecRetry ==
    InitRetry /\ [][NextRetry]_vars /\ WF_vars(RetryFetchReturns) /\ WF_vars(Sleep)

\* the registry holds every series that the list of the last successful fetch
\* stands for: part_004, each autoscaler's fields, metrics of a known kind and
\* conditions; part_003, the four always-set fields and both series of each
\* condition of an autoscaler whose annotations parse
HoldsSnapshot ==
    \A a \in Range(lastHpa) :
        IF variant = "v2"
        THEN \A f \in collectors : SnapshotSeries(f, a) \subseteq DOMAIN reg[f]
        ELSE ~Malformed(a) =>
               /\ \A f \in {"hpaCurrentPodsNum", "hpaDesiredPodsNum", "hpaMaxPodsNum",
                            "hpaCurrentCpuValue"} : baseLabel(a) \in DOMAIN reg[f]
               /\ \A c \in Range(CondsOf(a)) :
                    c.Type \in CondTypes =>
                        SeriesSetFor(a, c) \subseteq DOMAIN reg[CondFamily(c.Type)]

\* C21: part_003, part_004: after a failed fetch the metrics goroutine is at
\* its fetch again, the next fetch is made (ticks are counted up to MaxTicks),
\* and when it succeeds the registry holds the series of its list
C21_FetchErrorNeverEndsLoop ==
    /\ [](err => pc = "fetch")
    /\ \A n \in 0..(MaxTicks - 1) :
         (err /\ ticks = n) ~>
            (ticks = n + 1 /\ (err \/ (pc = "sleep" /\ hpa = lastHpa /\ HoldsSnapshot)))

\* two fetches failed, the third returned two autoscalers, and the registry
\* holds their series
C21_Witness ==
    /\ variant \in {"cache", "v2"} /\ ticks = 3 /\ fetchRun = 2
    /\ ~err /\ pc = "sleep" /\ prevHpa = <<>>
    /\ Len(lastHpa) = 2 /\ HoldsSnapshot
    /\ \A a \in Range(lastHpa) : baseLabel(a) \in DOMAIN reg["hpaCurrentPodsNum"]

----------------------------------------------------------------------------
(* A scrape while a tick is running *)

\* part_003, one case of the switch: the state once the cache is written and
\* the two Delete calls are done, and the state once the two Set calls are done
CacheRelabelPath(st, label, name, c) ==
    LET f == CondFamily(c.Type)
        new == makeAnnotationCondLabels(c)
        r1 == Delete(st.reg, f, mergeLabels(label, Lookup(st.fwd[c.Type], name)))
        r2 == Delete(r1, f, mergeLabels(label, Lookup(st.rev[c.Type], name)))
        written == CacheRelabel(st, label, name, c)
    IN  IF c.Type \in CondTypes
        THEN <<[written EXCEPT !.reg = r2], written>>
        ELSE <<>>

RECURSIVE CacheConditionsPath(_, _, _, _, _)
CacheConditionsPath(st, label, name, conditions, i) ==
    IF i > Len(conditions) THEN <<>>
    ELSE CacheRelabelPath(st, label, name, conditions[i])
         \o CacheConditionsPath(CacheRelabel(st, label, name, conditions[i]),
                                label, name, conditions, i + 1)

\* part_003, one autoscaler: the state once its base series are set, then the
\* states of its conditions; nothing when an annotation does not parse
CacheBodyPath(st, a) ==
    LET label == baseLabel(a)
        metrics == jsonUnmarshal(a.Annotations.metrics)
        cpuVal == IF Len(metrics.val) # 0
                  THEN currentAverageCpuValue(metrics.val[1])
                  ELSE 0
        based == [st EXCEPT !.reg = AnnotationBase(st.reg, a, label, cpuVal)]
    IN  IF Malformed(a) THEN <<>>
        ELSE <<based>> \o CacheConditionsPath(based, label, a.Name, CondsOf(a), 1)

RECURSIVE CacheLoopPath(_, _, _)
CacheLoopPath(st, list, i) ==
    IF i > Len(list) THEN <<>>
    ELSE CacheBodyPath(st, list[i]) \o CacheLoopPath(CacheBody(st, list[i]), list, i + 1)

\* part_004: the state once resetAllMetric is done, then the state after each
\* autoscaler of the list, up to one that panics
V2LoopPath(r, list) ==
    LET start == [reg |-> resetAllMetric(r), panic |-> FALSE]
        after(i) == V2Loop(start, SubSeq(list, 1, i), 1)
        last == IF \E i \in DOMAIN list : after(i).panic
                THEN CHOOSE i \in DOMAIN list :
                        after(i).panic /\ \A k \in 1..(i - 1) : ~after(k).panic
                ELSE Len(list)
    IN  <<start>> \o [i \in 1..last |-> after(i)]

\* the states [reg, fwd, rev, panic] a tick on list passes through
TickPath(list) ==
    IF variant = "v2"
    THEN LET path == V2LoopPath(reg, list)
         IN  [i \in DOMAIN path |->
                 [reg |-> path[i].reg, fwd |-> annoLabel, rev |-> annoLabelRev,
                  panic |-> path[i].panic]]
    ELSE LET path == CacheLoopPath([reg |-> reg, fwd |-> annoLabel, rev |-> annoLabelRev],
                                   list, 1)
         IN  [i \in DOMAIN path |->
                 [reg |-> path[i].reg, fwd |-> path[i].fwd, rev |-> path[i].rev,
                  panic |-> FALSE]]

\* the fetch of the metrics goroutine succeeds and its loop is about to run
PublishStart(lists) ==
    /\ variant \in {"cache", "v2"}
    /\ pc = "fetch"
    /\ ticks < MaxTicks
    /\ \E list \in lists :
         /\ hpa' = list
         /\ lastHpa' = list
         /\ inTick' = TickPath(list)
         /\ lastBase' = IF variant = "cache" THEN WrittenBase(lastBase, list, 1)
                        ELSE lastBase
    /\ prevHpa' = IF variant = "v2" THEN lastHpa ELSE prevHpa
    /\ tickStart' = reg
    /\ err' = FALSE
    /\ ticks' = ticks + 1
    /\ fetchRun' = Bump(fetchRun)
    /\ pc' = "loop"
    /\ UNCHANGED <<variant, mainPc, reg, annoLabel, annoLabelRev, loggingVars, pureVars,
                   scraped>>

\* the loop goes one state further, or is over: time.Sleep comes next
PublishStep ==
    /\ pc = "loop"
    /\ IF inTick = <<>>
       THEN /\ pc' = "sleep"
            /\ UNCHANGED <<reg, annoLabel, annoLabelRev, inTick>>
       ELSE /\ reg' = Head(inTick).reg
            /\ annoLabel' = Head(inTick).fwd
            /\ annoLabelRev' = Head(inTick).rev
            /\ inTick' = IF Head(inTick).panic THEN <<>> ELSE Tail(inTick)
            /\ pc' = IF Head(inTick).panic THEN "panic" ELSE "loop"
    /\ UNCHANGED <<variant, mainPc, hpa, err, lastHpa, prevHpa, ticks, fetchRun,
                   loggingVars, pureVars, tickStart, scraped, historyVars>>

\* GET /metrics: promhttp.Handler gathers the registry as it is now
Scrape ==
    /\ mainPc = "serve"
    /\ pc # "panic"
    /\ scraped' = [reg |-> reg,
                   before |-> tickStart,
                   after |-> IF inTick = <<>> THEN reg ELSE inTick[Len(inTick)].reg,
                   during |-> pc = "loop"]
    /\ UNCHANGED <<variant, mainPc, metricsVars, loggingVars, pureVars, inTick, tickStart,
                   historyVars>>

InitScrape == variant \in {"cache", "v2"} /\ InitMetrics

NextScrape ==
    \/ PublishStart(Lists(RetryHpas(variant)))
    \/ PublishStep
    \/ FetchError
    \/ Sleep
    \/ Scrape

SpecScrape == InitScrape /\ [][NextScrape]_vars

\* C22: part_003, part_004: a scrape that runs while a successful tick is under
\* way gathers every series that is in the registry both before and after
\* that tick
C22_ScrapeSeesStableSeries ==
    scraped.during =>
        \A f \in Families :
            (DOMAIN scraped.before[f] \cap DOMAIN scraped.after[f])
                \subseteq DOMAIN scraped.reg[f]

----------------------------------------------------------------------------
(* The two series of a condition *)

\* the conditions the running variant reads from autoscaler a
ObservedConds(a) ==
    CASE variant = "v2" -> a.Conditions
      [] variant \in {"setonly", "cache"} -> CondsOf(a)
      [] OTHER -> <<>>

\* registry r after the running variant has handled condition c of autoscaler a
RelabelOne(r, a, c) ==
    CASE variant = "v2" ->
            V2Condition([reg |-> r, panic |-> FALSE], baseLabel(a), c).reg
      [] variant = "cache" ->
            CacheRelabel([reg |-> r, fwd |-> annoLabel, rev |-> annoLabelRev],
                         baseLabel(a), a.Name, c).reg
      [] OTHER -> SetOnlyCondition(r, baseLabel(a), c)

\* C23: in every variant, every series of the three condition families has
\* value 0 or 1, and a series of value 0 has empty cond_reason and
\* cond_message; and handling an observed condition of a known type sets two
\* series that differ in cond_status, the one with the condition's status,
\* reason and message at 1 and the other at 0, so that the first is still 1
\* when both Set calls are done
C23_ActiveAndInactiveDiffer ==
    /\ \A f \in CondFamilies : \A l \in DOMAIN reg[f] :
         /\ reg[f][l] \in {Float64(0), Float64(1)}
         /\ reg[f][l] = Float64(0) => l.cond_reason = "" /\ l.cond_message = ""
    /\ \A a \in Range(lastHpa) : \A c \in Range(ObservedConds(a)) :
         c.Type \in CondTypes =>
            LET f == CondFamily(c.Type)
                active == mergeLabels(baseLabel(a),
                                      [cond_status |-> c.Status, cond_reason |-> c.Reason,
                                       cond_message |-> c.Message])
                now == RelabelOne(reg, a, c)
                fresh == RelabelOne(EmptyRegistry, a, c)
            IN  /\ active \in DOMAIN now[f] /\ now[f][active] = Float64(1)
                /\ active \in DOMAIN fresh[f] /\ fresh[f][active] = Float64(1)
                /\ \E inactive \in DOMAIN fresh[f] :
                     /\ DOMAIN fresh[f] = {active, inactive}
                     /\ inactive.cond_status # active.cond_status
                     /\ fresh[f][inactive] = Float64(0)

\* a tick has handled a condition whose status is neither True nor False, and
\* one with empty reason and message; their families hold series at 1 and at 0
C23_Witness ==
    /\ pc = "sleep" /\ ~err
    /\ \E a \in Range(lastHpa) : \E c \in Range(ObservedConds(a)) :
         /\ c.Type \in CondTypes /\ c.Status = "Unknown"
         /\ \E l \in DOMAIN reg[CondFamily(c.Type)] :
              /\ BaseOf(l) = baseLabel(a) /\ l.cond_status = "Unknown"
              /\ reg[CondFamily(c.Type)][l] = Float64(1)
         /\ \E l \in DOMAIN reg[CondFamily(c.Type)] :
              /\ BaseOf(l) = baseLabel(a) /\ l.cond_status = "True"
              /\ reg[CondFamily(c.Type)][l] = Float64(0)
    /\ \E l \in DOMAIN reg["hpaAbleToScale"] : reg["hpaAbleToScale"][l] = Float64(0)

----------------------------------------------------------------------------
(* part_003: the caches and the registry *)

====
